---- MODULE Spec2Model ----
(***************************************************************************)
(* A model of the HOA reconciliation core of moe-sasi/HOA_Report:          *)
(* hoa_report/qa/loan_id.py (identifier normalisation),                    *)
(* hoa_report/models/canonical.py (the canonical column contract) and      *)
(* hoa_report/engine.py (source preparation, priority resolution and the   *)
(* waterfall merge).                                                       *)
(*                                                                         *)
(* Python values are modelled as tagged records, Python strings as         *)
(* sequences of one-character strings, a pandas DataFrame as a set of      *)
(* column names plus a sequence of rows (functions from column name to     *)
(* value) carrying the default 0-based RangeIndex, so that row i of the    *)
(* frame is rows[i + 1].                                                   *)
(***************************************************************************)
EXTENDS Integers, Sequences, FiniteSets

(***************************************************************************)
(* Characters and Python str                                               *)
(***************************************************************************)
DIGITS == <<"0", "1", "2", "3", "4", "5", "6", "7", "8", "9">>

UPPER ==
    <<"A", "B", "C", "D", "E", "F", "G", "H", "I", "J", "K", "L", "M",
      "N", "O", "P", "Q", "R", "S", "T", "U", "V", "W", "X", "Y", "Z">>

LOWER ==
    <<"a", "b", "c", "d", "e", "f", "g", "h", "i", "j", "k", "l", "m",
      "n", "o", "p", "q", "r", "s", "t", "u", "v", "w", "x", "y", "z">>

Range(s) == {s[i] : i \in DOMAIN s}

\* The characters of the model in code-point order (what Python's sorted()
\* and str comparison use).
AsciiOrder ==
    <<"\t", "\n", " ", "*", "-", ".">> \o DIGITS \o UPPER \o <<"_">> \o LOWER

Ord(c) == CHOOSE i \in DOMAIN AsciiOrder : AsciiOrder[i] = c

Whitespace == {"\t", "\n", " "}

DigitSet == Range(DIGITS)

IsDigit(c) == c \in DigitSet

UpperSet == Range(UPPER)

IsUpper(c) == c \in UpperSet

LowerSet == Range(LOWER)

IsLower(c) == c \in LowerSet

\* str.upper() and str.lower() on one ASCII character
UpperChar(c) ==
    IF IsLower(c) THEN UPPER[CHOOSE i \in DOMAIN LOWER : LOWER[i] = c] ELSE c

LowerChar(c) ==
    IF IsUpper(c) THEN LOWER[CHOOSE i \in DOMAIN UPPER : UPPER[i] = c] ELSE c

StrUpper(s) == [i \in DOMAIN s |-> UpperChar(s[i])]

StrLower(s) == [i \in DOMAIN s |-> LowerChar(s[i])]

RECURSIVE LStrip(_)
LStrip(s) ==
    IF s # <<>> /\ Head(s) \in Whitespace THEN LStrip(Tail(s)) ELSE s

RECURSIVE RStrip(_)
RStrip(s) ==
    IF s # <<>> /\ s[Len(s)] \in Whitespace
    THEN RStrip(SubSeq(s, 1, Len(s) - 1))
    ELSE s

\* str.strip()
Strip(s) == RStrip(LStrip(s))

\* str(n) of a non-negative int
RECURSIVE Digits(_)
Digits(n) ==
    IF n < 10 THEN <<DIGITS[n + 1]>>
    ELSE Digits(n \div 10) \o <<DIGITS[(n % 10) + 1]>>

\* Python's < on str: lexicographic by code point
RECURSIVE StrLess(_, _)
StrLess(a, b) ==
    IF b = <<>> THEN FALSE
    ELSE IF a = <<>> THEN TRUE
    ELSE IF Head(a) = Head(b) THEN StrLess(Tail(a), Tail(b))
    ELSE Ord(Head(a)) < Ord(Head(b))

\* variant: the greatest first
RECURSIVE SortedStrsDescending(_)
SortedStrsDescending(S) ==
    IF S = {} THEN <<>>
    ELSE LET m == CHOOSE x \in S : \A y \in S \ {x} : StrLess(y, x)
         IN  <<m>> \o SortedStrsDescending(S \ {m})

\* sorted() of a set of str
RECURSIVE SortedStrs(_)
SortedStrs(S) ==
    IF S = {} THEN <<>>
    ELSE LET m == CHOOSE x \in S : \A y \in S \ {x} : StrLess(x, y)
         IN  <<m>> \o SortedStrs(S \ {m})

(***************************************************************************)
(* Python values held by a DataFrame cell                                  *)
(***************************************************************************)
VNone == [t |-> "None", s |-> <<>>, n |-> 0]

VNaN == [t |-> "nan", s |-> <<>>, n |-> 0]

VStr(s) == [t |-> "str", s |-> s, n |-> 0]

VInt(n) == [t |-> "int", s |-> <<>>, n |-> n]

\* a float holding the whole number n (12345.0)
VFloat(n) == [t |-> "float", s |-> <<>>, n |-> n]

\* str(x)
PyStr(x) ==
    CASE x.t = "str" -> x.s
      [] x.t = "int" -> Digits(x.n)
      [] x.t = "float" -> Digits(x.n) \o <<".", "0">>
      [] x.t = "nan" -> <<"n", "a", "n">>
      [] OTHER -> <<"N", "o", "n", "e">>

\* Python's == on two cell values: numbers compare by value, a str equals
\* only an equal str, NaN equals nothing.
PyEq(a, b) ==
    CASE a.t = "str" /\ b.t = "str" -> a.s = b.s
      [] a.t \in {"int", "float"} /\ b.t \in {"int", "float"} -> a.n = b.n
      [] a.t = "None" /\ b.t = "None" -> TRUE
      [] OTHER -> FALSE

\* pandas isna()/notna(): None and NaN are missing
IsNA(x) == x.t \in {"None", "nan"}

(***************************************************************************)
(* hoa_report/qa/loan_id.py                                                *)
(***************************************************************************)
\* variant: the dot of the pattern is not escaped, r".0$" takes any
\* character before a final "0"
StripTrailingAnyZero(s) ==
    IF Len(s) >= 2 /\ s[Len(s) - 1] # "\n" /\ s[Len(s)] = "0"
    THEN SubSeq(s, 1, Len(s) - 2)
    ELSE s

\* re.sub(r"\.0$", "", s) on a stripped string: one trailing ".0" removed
StripTrailingDotZero(s) ==
    IF Len(s) >= 2 /\ s[Len(s) - 1] = "." /\ s[Len(s)] = "0"
    THEN SubSeq(s, 1, Len(s) - 2)
    ELSE s

\* variant: the pattern r"\W+", which keeps the underscore
RemoveNonWord(s) ==
    SelectSeq(s, LAMBDA c : IsDigit(c) \/ IsUpper(c) \/ IsLower(c) \/ c = "_")

\* _NON_ALNUM.sub("", s) with _NON_ALNUM = [^A-Za-z0-9]+
RemoveNonAlnum(s) ==
    SelectSeq(s, LAMBDA c : IsDigit(c) \/ IsUpper(c) \/ IsLower(c))

normalize_loan_id(x) ==
    IF x.t = "None" THEN VNone
    ELSE IF x.t = "nan" THEN VNone
    ELSE LET normalized ==
                 StrUpper(RemoveNonAlnum(StripTrailingDotZero(Strip(PyStr(x)))))
         IN  IF normalized = <<>> THEN VNone ELSE VStr(normalized)

(***************************************************************************)
(* hoa_report/models/canonical.py                                          *)
(***************************************************************************)
HOA_WIDE_CANONICAL_COLUMNS ==
    <<"hoa_monthly_dues_amount", "hoa_monthly_dues_frequency",
      "hoa_transfer_fee_amount", "hoa_special_assessment_amount",
      "hoa_notes", "hoa_source", "hoa_source_file">>

HOA_EXTRACTOR_COLUMNS == <<"loan_id">> \o HOA_WIDE_CANONICAL_COLUMNS

\* A DataFrame: its column names and its rows, each a function on the columns
Frame(columns, rows) == [columns |-> columns, rows |-> rows]

\* enforce_hoa_extractor_columns: a copy projected onto the canonical
\* columns, a missing column filled with None.  The result is the row
\* sequence of a frame whose columns are HOA_EXTRACTOR_COLUMNS.
enforce_hoa_extractor_columns(df) ==
    [i \in DOMAIN df.rows |->
        [c \in Range(HOA_EXTRACTOR_COLUMNS) |->
            IF c \in df.columns THEN df.rows[i][c] ELSE VNone]]

(***************************************************************************)
(* hoa_report/engine.py                                                    *)
(***************************************************************************)
SOURCE_COLUMNS == <<"hoa_source", "hoa_source_file">>

HOA_VALUE_COLUMNS ==
    SelectSeq(HOA_WIDE_CANONICAL_COLUMNS, LAMBDA c : c \notin Range(SOURCE_COLUMNS))

\* variant: a truthiness test, which also takes the number 0 for a blank
_is_blank_falsy(value) ==
    IF value.t = "None" THEN TRUE
    ELSE IF value.t = "str" THEN Strip(value.s) = <<>>
    ELSE IF value.t = "nan" THEN TRUE
    ELSE value.n = 0

_is_blank(value) ==
    IF value.t = "None" THEN TRUE
    ELSE IF value.t = "str" THEN Strip(value.s) = <<>>
    ELSE IF value.t = "nan" THEN TRUE
    ELSE FALSE

\* _NON_ALNUM.sub("", name.strip().lower()) with _NON_ALNUM = [^a-z0-9]+
_normalize_source_key(name) ==
    SelectSeq(StrLower(Strip(name)), LAMBDA c : IsDigit(c) \/ IsLower(c))

\* the first non-blank value as stripped text, or None
RECURSIVE _first_non_blank(_)
_first_non_blank(values) ==
    IF values = <<>> THEN VNone
    ELSE IF _is_blank(Head(values)) THEN _first_non_blank(Tail(values))
    ELSE VStr(Strip(PyStr(Head(values))))

Column(rows, c) == [i \in DOMAIN rows |-> rows[i][c]]

\* variant: only a repeat of the row just before is seen
DuplicatedAdjacent(values) ==
    [i \in DOMAIN values |-> i > 1 /\ values[i - 1] = values[i]]

\* Series.duplicated(): TRUE at every occurrence of a value after its first
Duplicated(values) ==
    [i \in DOMAIN values |-> \E j \in 1..(i - 1) : values[j] = values[i]]

\* The outcome of a call: a returned value or a raised ValueError
Returned(v) == [ok |-> TRUE, value |-> v, error |-> "", count |-> 0, ids |-> <<>>]

Raised(kind, count, ids) ==
    [ok |-> FALSE, value |-> <<>>, error |-> kind, count |-> count, ids |-> ids]

\* f"source_{original_index + 1}"
SynthesizedName(original_index) ==
    <<"s", "o", "u", "r", "c", "e", "_">> \o Digits(original_index + 1)

\* variant: no row is dropped
DropMissingIdsKeepAll(rows) == rows

\* canonical_df.loc[canonical_df["loan_id"].notna()]
DropMissingIds(rows) == SelectSeq(rows, LAMBDA r : ~IsNA(r["loan_id"]))

_prepare_source(df, original_index) ==
    LET enforced == enforce_hoa_extractor_columns(df)
        mapped ==
            [i \in DOMAIN enforced |->
                [enforced[i] EXCEPT !["loan_id"] = normalize_loan_id(@)]]
        canonical_df == DropMissingIds(mapped)
        ids == Column(canonical_df, "loan_id")
        dup == Duplicated(ids)
        duplicates == SortedStrs({ids[i].s : i \in {j \in DOMAIN ids : dup[j]}})
        first_name == _first_non_blank(Column(canonical_df, "hoa_source"))
    IN  IF \E i \in DOMAIN dup : dup[i]
        THEN Raised("DuplicateVendorLoanId", 0, duplicates)
        ELSE Returned(
                [original_index |-> original_index,
                 source_name |->
                     IF first_name.t = "str" THEN first_name.s
                     ELSE SynthesizedName(original_index),
                 source_file |-> _first_non_blank(Column(canonical_df, "hoa_source_file")),
                 canonical_df |-> canonical_df])

\* the priority_rank dict built by the loop over enumerate(priority), as the
\* set of its (key, rank) pairs
RECURSIVE PriorityRankFrom(_, _, _)
PriorityRankFrom(priority, index, priority_rank) ==
    IF index >= Len(priority) THEN priority_rank
    ELSE LET normalized == _normalize_source_key(priority[index + 1])
         IN  IF normalized # <<>> /\ ~(\E e \in priority_rank : e.key = normalized)
             THEN PriorityRankFrom(priority, index + 1,
                      priority_rank \cup {[key |-> normalized, rank |-> index]})
             ELSE PriorityRankFrom(priority, index + 1, priority_rank)

PriorityRank(priority) == PriorityRankFrom(priority, 0, {})

\* priority_rank.get(key, fallback_rank)
RankOf(priority_rank, key, fallback_rank) ==
    IF \E e \in priority_rank : e.key = key
    THEN (CHOOSE e \in priority_rank : e.key = key).rank
    ELSE fallback_rank

\* the sort key of _resolve_priority_order: (rank, original_index)
SortKey(priority_rank, source) ==
    <<RankOf(priority_rank, _normalize_source_key(source.source_name),
             Cardinality(priority_rank)),
      source.original_index>>

KeyLess(a, b) == a[1] < b[1] \/ (a[1] = b[1] /\ a[2] < b[2])

\* sorted(seq, key=...): stable, so elements with equal keys keep their order
RECURSIVE SortedByKey(_, _)
SortedByKey(seq, priority_rank) ==
    IF seq = <<>> THEN <<>>
    ELSE LET m == CHOOSE i \in DOMAIN seq :
                    /\ \A j \in DOMAIN seq :
                          ~KeyLess(SortKey(priority_rank, seq[j]),
                                   SortKey(priority_rank, seq[i]))
                    /\ \A j \in 1..(i - 1) :
                          KeyLess(SortKey(priority_rank, seq[i]),
                                  SortKey(priority_rank, seq[j]))
                          \/ KeyLess(SortKey(priority_rank, seq[j]),
                                     SortKey(priority_rank, seq[i]))
             rest == [k \in 1..(Len(seq) - 1) |-> IF k < m THEN seq[k] ELSE seq[k + 1]]
         IN  <<seq[m]>> \o SortedByKey(rest, priority_rank)

_resolve_priority_order(prepared_sources, priority) ==
    SortedByKey(prepared_sources, PriorityRank(priority))

\* lines 231-249 of merge_hoa_sources: the copy of the tape with normalised
\* identifiers and every canonical HOA column present, or the ValueError
TapeColumns(loan_master_df) ==
    loan_master_df.columns \cup Range(HOA_WIDE_CANONICAL_COLUMNS)

NormalizedTapeRows(loan_master_df) ==
    [i \in DOMAIN loan_master_df.rows |->
        [c \in TapeColumns(loan_master_df) |->
            IF c = "loan_id" THEN normalize_loan_id(loan_master_df.rows[i][c])
            ELSE IF c \in loan_master_df.columns THEN loan_master_df.rows[i][c]
            ELSE VNone]]

\* variant: whether any identifier is missing, not how many
InvalidTapeIdsAny(rows) ==
    IF \E i \in DOMAIN rows : IsNA(rows[i]["loan_id"]) THEN 1 ELSE 0

\* int(merged_df["loan_id"].isna().sum())
InvalidTapeIds(rows) == Cardinality({i \in DOMAIN rows : IsNA(rows[i]["loan_id"])})

NormalizeTape(loan_master_df) ==
    IF "loan_id" \notin loan_master_df.columns
    THEN Raised("MissingLoanIdColumn", 0, <<>>)
    ELSE LET rows == NormalizedTapeRows(loan_master_df)
         IN  IF InvalidTapeIds(rows) # 0
             THEN Raised("InvalidTapeLoanId", InvalidTapeIds(rows), <<>>)
             ELSE Returned(rows)

\* [_prepare_source(df, idx) for idx, df in enumerate(hoa_sources)]: the
\* prepared sources, or the error of the first source that fails
RECURSIVE PrepareFrom(_, _, _)
PrepareFrom(sources, idx, prepared) ==
    IF idx >= Len(sources) THEN Returned(prepared)
    ELSE LET one == _prepare_source(sources[idx + 1], idx)
         IN  IF one.ok THEN PrepareFrom(sources, idx + 1, Append(prepared, one.value))
             ELSE one

PrepareAll(sources) == PrepareFrom(sources, 0, <<>>)

\* the columns of one source carried into work_df under its prefix
JOIN_VALUE_COLUMNS == HOA_VALUE_COLUMNS \o SOURCE_COLUMNS

\* DataFrame.merge(renamed, on="loan_id", how="left") for one left row: one
\* output row per matching right row, in right order, or a single row of NaN
\* variant: how="inner", an unmatched left row is dropped
JoinedCellsInner(loan_id, canonical_df) ==
    LET matches == SelectSeq(canonical_df, LAMBDA r : r["loan_id"] = loan_id)
    IN  [k \in DOMAIN matches |->
            [c \in Range(JOIN_VALUE_COLUMNS) |-> matches[k][c]]]

JoinedCells(loan_id, canonical_df) ==
    LET matches == SelectSeq(canonical_df, LAMBDA r : r["loan_id"] = loan_id)
    IN  IF matches = <<>>
        THEN <<[c \in Range(JOIN_VALUE_COLUMNS) |-> VNaN]>>
        ELSE [k \in DOMAIN matches |->
                 [c \in Range(JOIN_VALUE_COLUMNS) |-> matches[k][c]]]

RECURSIVE LeftMerge(_, _)
LeftMerge(work_df, canonical_df) ==
    IF work_df = <<>> THEN <<>>
    ELSE LET left == Head(work_df)
             cells == JoinedCells(left.loan_id, canonical_df)
         IN  [k \in DOMAIN cells |->
                 [loan_id |-> left.loan_id, src |-> Append(left.src, cells[k])]]
             \o LeftMerge(Tail(work_df), canonical_df)

\* lines 254-263: work_df after the loop over enumerate(ordered_sources);
\* src[rank + 1][column] is the column f"__src_{rank}__{column}"
RECURSIVE JoinFrom(_, _, _)
JoinFrom(work_df, ordered_sources, rank) ==
    IF rank >= Len(ordered_sources) THEN work_df
    ELSE JoinFrom(LeftMerge(work_df, ordered_sources[rank + 1].canonical_df),
                  ordered_sources, rank + 1)

JoinAll(merged_rows, ordered_sources) ==
    JoinFrom([i \in DOMAIN merged_rows |->
                 [loan_id |-> merged_rows[i]["loan_id"], src |-> <<>>]],
             ordered_sources, 0)

\* the sentinels of selected_rank
RANK_NONE == -1

RANK_BASE == -2

\* variant: no test of the value selected so far, the last non-blank wins
RECURSIVE FillFromLastWins(_, _, _, _)
FillFromLastWins(work_row, column, rank, selected) ==
    IF rank >= Len(work_row.src) THEN selected
    ELSE LET source_value == work_row.src[rank + 1][column]
         IN  IF ~_is_blank(source_value)
             THEN FillFromLastWins(work_row, column, rank + 1,
                                   [value |-> source_value, rank |-> rank])
             ELSE FillFromLastWins(work_row, column, rank + 1, selected)

\* lines 270-274 for one row of one column: the loop over the ranks
RECURSIVE FillFrom(_, _, _, _)
FillFrom(work_row, column, rank, selected) ==
    IF rank >= Len(work_row.src) THEN selected
    ELSE LET source_value == work_row.src[rank + 1][column]
         IN  IF _is_blank(selected.value) /\ ~_is_blank(source_value)
             THEN FillFrom(work_row, column, rank + 1,
                           [value |-> source_value, rank |-> rank])
             ELSE FillFrom(work_row, column, rank + 1, selected)

\* variant: the tape's own value is kept whenever it is non-blank
SelectValueTapeFirst(work_row, base_row, column) ==
    LET filled == FillFrom(work_row, column, 0, [value |-> VNone, rank |-> RANK_NONE])
    IN  IF ~_is_blank(base_row[column])
        THEN [value |-> base_row[column], rank |-> RANK_BASE]
        ELSE filled

\* lines 267-279 for one row of one column: the waterfall, then the fallback
\* to the tape's own value
SelectValue(work_row, base_row, column) ==
    LET filled == FillFrom(work_row, column, 0, [value |-> VNone, rank |-> RANK_NONE])
    IN  IF _is_blank(filled.value) /\ ~_is_blank(base_row[column])
        THEN [value |-> base_row[column], rank |-> RANK_BASE]
        ELSE filled

\* lines 265-282: per row, per value column, the selected value and rank
Waterfall(work_df, base_rows) ==
    [i \in DOMAIN base_rows |->
        [c \in Range(HOA_VALUE_COLUMNS) |-> SelectValue(work_df[i], base_rows[i], c)]]

\* lines 286-302 for one row: the loop over the ranks
RECURSIVE ProvenanceFrom(_, _, _, _, _)
ProvenanceFrom(work_row, selected_row, ordered_sources, rank, used) ==
    IF rank >= Len(ordered_sources) THEN used
    ELSE LET source == ordered_sources[rank + 1]
             contribution ==
                 \E c \in Range(HOA_VALUE_COLUMNS) : selected_row[c].rank = rank
             row_source == work_row.src[rank + 1]["hoa_source"]
             resolved_source ==
                 IF _is_blank(row_source) THEN VStr(source.source_name) ELSE row_source
             row_file == work_row.src[rank + 1]["hoa_source_file"]
             resolved_file ==
                 IF _is_blank(row_file) /\ source.source_file.t # "None"
                 THEN source.source_file
                 ELSE row_file
             next ==
                 [source |->
                     IF _is_blank(used.source) /\ contribution
                     THEN resolved_source ELSE used.source,
                  file |->
                     IF _is_blank(used.file) /\ contribution
                     THEN resolved_file ELSE used.file]
         IN  ProvenanceFrom(work_row, selected_row, ordered_sources, rank + 1, next)

\* lines 284-312 for one row
Provenance(work_row, selected_row, base_row, ordered_sources) ==
    LET used == ProvenanceFrom(work_row, selected_row, ordered_sources, 0,
                               [source |-> VNone, file |-> VNone])
    IN  [source |-> IF _is_blank(used.source) THEN base_row["hoa_source"] ELSE used.source,
         file |-> IF _is_blank(used.file) THEN base_row["hoa_source_file"] ELSE used.file]

_normalize_discrepancy_value(value) ==
    IF _is_blank(value) THEN VNone
    ELSE IF value.t = "str" THEN VStr(Strip(value.s))
    ELSE value

\* variant: blanks are compared like values
_values_disagree_raw(values) ==
    \E i, j \in DOMAIN values : ~PyEq(values[i], values[j])

RECURSIVE DisagreeFrom(_, _)
DisagreeFrom(values, seen) ==
    IF values = <<>> THEN FALSE
    ELSE LET value == _normalize_discrepancy_value(Head(values))
         IN  IF value.t = "None" THEN DisagreeFrom(Tail(values), seen)
             ELSE IF \A k \in DOMAIN seen : ~PyEq(value, seen[k])
             THEN IF Len(seen) + 1 > 1 THEN TRUE
                  ELSE DisagreeFrom(Tail(values), Append(seen, value))
             ELSE DisagreeFrom(Tail(values), seen)

\* variant: the threshold of the early return is one too high
RECURSIVE DisagreeFromThree(_, _)
DisagreeFromThree(values, seen) ==
    IF values = <<>> THEN FALSE
    ELSE LET value == _normalize_discrepancy_value(Head(values))
         IN  IF value.t = "None" THEN DisagreeFromThree(Tail(values), seen)
             ELSE IF \A k \in DOMAIN seen : ~PyEq(value, seen[k])
             THEN IF Len(seen) + 1 > 2 THEN TRUE
                  ELSE DisagreeFromThree(Tail(values), Append(seen, value))
             ELSE DisagreeFromThree(Tail(values), seen)

_values_disagree_three(values) == DisagreeFromThree(values, <<>>)

_values_disagree(values) == DisagreeFrom(values, <<>>)

\* variant: the sources' values only, not the tape's
ComparisonValuesSourcesOnly(work_row, base_row, column) ==
    [k \in DOMAIN work_row.src |-> work_row.src[k][column]]

\* variant: the tape's value against the value of the first-ranked source
ComparisonValuesTopRank(work_row, base_row, column) ==
    <<base_row[column]>>
        \o [k \in DOMAIN work_row.src \cap {1} |-> work_row.src[k][column]]

\* lines 314-331 for one row: the tape's value, then every source's raw value
ComparisonValues(work_row, base_row, column) ==
    <<base_row[column]>> \o [k \in DOMAIN work_row.src |-> work_row.src[k][column]]

DiscrepancyFlag(work_row, base_row) ==
    \E c \in Range(HOA_VALUE_COLUMNS) :
        /\ Len(ComparisonValues(work_row, base_row, c)) >= 2
        /\ _values_disagree(ComparisonValues(work_row, base_row, c))

\* set(frame["loan_id"].dropna().tolist()) as a set of str
LoanIdSet(rows) == {rows[i]["loan_id"].s : i \in {j \in DOMAIN rows : ~IsNA(rows[j]["loan_id"])}}

\* vendor_exceptions[key] = entry on a dict kept as its items in insertion
\* order: an existing key keeps its place and takes the new entry
DictSet(items, key, entry) ==
    IF \E k \in DOMAIN items : items[k].key = key
    THEN [k \in DOMAIN items |->
             IF items[k].key = key THEN [key |-> key, entry |-> entry] ELSE items[k]]
    ELSE Append(items, [key |-> key, entry |-> entry])

\* seen_vendor_names.get(name, 0)
SeenCount(seen_vendor_names, name) ==
    IF \E e \in seen_vendor_names : e.key = name
    THEN (CHOOSE e \in seen_vendor_names : e.key = name).count
    ELSE 0

\* variant: the identifiers that only one of the two sides holds
MissingIdsEitherSide(tape_loan_ids, vendor_loan_ids) ==
    SortedStrs((tape_loan_ids \ vendor_loan_ids) \cup (vendor_loan_ids \ tape_loan_ids))

\* sorted(tape_loan_ids - vendor_loan_ids)
MissingIds(tape_loan_ids, vendor_loan_ids) == SortedStrs(tape_loan_ids \ vendor_loan_ids)

\* lines 333-352: the loop over ordered_sources
RECURSIVE ExceptionsFrom(_, _, _, _, _)
ExceptionsFrom(tape_loan_ids, ordered_sources, k, vendor_exceptions, seen_vendor_names) ==
    IF k > Len(ordered_sources) THEN vendor_exceptions
    ELSE LET source == ordered_sources[k]
             vendor_loan_ids == LoanIdSet(source.canonical_df)
             missing == MissingIds(tape_loan_ids, vendor_loan_ids)
             extra == SortedStrs(vendor_loan_ids \ tape_loan_ids)
             existing_count == SeenCount(seen_vendor_names, source.source_name)
             vendor_key ==
                 IF existing_count # 0
                 THEN source.source_name \o <<"_">> \o Digits(existing_count + 1)
                 ELSE source.source_name
             entry ==
                 [missing_in_vendor |-> missing,
                  extra_in_vendor |-> extra,
                  missing_in_vendor_count |-> Len(missing),
                  extra_in_vendor_count |-> Len(extra)]
         IN  ExceptionsFrom(tape_loan_ids, ordered_sources, k + 1,
                 DictSet(vendor_exceptions, vendor_key, entry),
                 {e \in seen_vendor_names : e.key # source.source_name}
                     \cup {[key |-> source.source_name, count |-> existing_count + 1]})

VendorExceptions(merged_rows, ordered_sources) ==
    ExceptionsFrom(LoanIdSet(merged_rows), ordered_sources, 1, <<>>, {})

(***************************************************************************)
(* The inputs of merge_hoa_sources that are explored                       *)
(***************************************************************************)
Txt_L1 == <<"L", "-", "1">>

Txt_l1 == <<" ", "l", "1", " ">>

Txt_L1f == <<"L", "1", ".", "0">>

Txt_L2 == <<"L", "2">>

Txt_L3 == <<"L", "3">>

Txt_X9 == <<"X", "-", "9">>

Txt_Stars == <<"*", "*">>

Txt_Space == <<" ", " ">>

Txt_A == <<"A">>

Txt_B == <<"B">>

Txt_Zero == <<"0">>

\* a vendor frame's row with an identifier, one amount and its provenance
VENDOR_COLUMNS == {"loan_id", "hoa_monthly_dues_amount", "hoa_source", "hoa_source_file"}

VendorRow(loan_id, amount, name) ==
    [c \in VENDOR_COLUMNS |->
        CASE c = "loan_id" -> loan_id
          [] c = "hoa_monthly_dues_amount" -> amount
          [] c = "hoa_source" -> name
          [] OTHER -> IF name.t = "str" THEN VStr(name.s \o <<".", "x">>) ELSE VNone]

VendorFrame(rows) == Frame(VENDOR_COLUMNS, rows)

TapeIdRow(loan_id) == [c \in {"loan_id"} |-> loan_id]

TapeRow(loan_id, amount) ==
    [c \in {"loan_id", "hoa_monthly_dues_amount"} |->
        IF c = "loan_id" THEN loan_id ELSE amount]

\* (the variables are declared here because the families below are
\* predicates on the arguments of the call)
VARIABLES
    loan_master_df,     \* argument: the tape frame
    hoa_sources,        \* argument: the vendor frames
    priority,           \* argument: the priority names
    pc,                 \* the phase of the call
    merged_df,          \* rows of merged_df
    base_rows,          \* base_values_by_column, base_source(_file)_series
    prepared_sources,
    ordered_sources,
    work_df,
    selected_rank,      \* selected_source_rank_by_column, per row
    vendor_exceptions,  \* the items of the returned dict
    raised              \* the ValueError raised, if any

MergeInput(tape, sources, prio) ==
    /\ loan_master_df = tape
    /\ hoa_sources = sources
    /\ priority = prio

\* Tapes of any identifiers (valid, repeated after normalisation, absent),
\* against a few fixed source lists
MaxTapeRows == 3

TapeIdChoices == {VStr(Txt_L1), VStr(Txt_l1), VStr(Txt_L2), VStr(Txt_Stars), VNone}

SourceA ==
    VendorFrame(<<VendorRow(VStr(Txt_L1f), VFloat(100), VStr(Txt_A)),
                  VendorRow(VStr(Txt_X9), VFloat(300), VStr(Txt_A))>>)

SourceB ==
    VendorFrame(<<VendorRow(VStr(Txt_L2), VFloat(200), VStr(Txt_B)),
                  VendorRow(VNaN, VFloat(400), VStr(Txt_B))>>)

SourceDup ==
    VendorFrame(<<VendorRow(VStr(Txt_L1), VFloat(100), VStr(Txt_A)),
                  VendorRow(VStr(Txt_l1), VFloat(100), VStr(Txt_A))>>)

TapeFamily ==
    \/ \E n \in 0..MaxTapeRows : \E ids \in [1..n -> TapeIdChoices] :
       \E srcs \in {<<>>, <<SourceA>>, <<SourceB, SourceA>>, <<SourceA, SourceDup>>} :
          MergeInput(Frame({"loan_id"}, [i \in DOMAIN ids |-> TapeIdRow(ids[i])]),
                     srcs, <<Txt_A>>)
    \/ MergeInput(Frame({"city"}, <<[c \in {"city"} |-> VStr(Txt_A)]>>), <<SourceA>>, <<>>)

\* One vendor frame of any rows (repeated, absent and foreign identifiers)
\* against a fixed tape, alone or followed by a second source
MaxVendorRows == 4

VendorRowChoices ==
    {VendorRow(VStr(Txt_L1), VFloat(100), VStr(Txt_A)),
     VendorRow(VStr(Txt_l1), VFloat(150), VStr(Txt_A)),
     VendorRow(VStr(Txt_L2), VNaN, VStr(Txt_A)),
     VendorRow(VStr(Txt_Stars), VFloat(400), VStr(Txt_A))}

FixedTape ==
    Frame({"loan_id", "hoa_monthly_dues_amount"},
          <<TapeRow(VStr(Txt_L2), VNaN), TapeRow(VStr(Txt_L1), VFloat(50))>>)

VendorFamily ==
    \E n \in 0..MaxVendorRows : \E rows \in [1..n -> VendorRowChoices] :
    \E more \in {<<>>, <<SourceB>>} :
        MergeInput(FixedTape, <<VendorFrame(rows)>> \o more, <<Txt_B, Txt_A>>)

\* Two sources A and B holding, for each tape row, no row, a blank, a zero
\* or an amount, against a tape with or without a value of its own
MaxFillRows == 1

FillIds == <<Txt_L1, Txt_L2, Txt_L3, Txt_X9>>

NoRow == [t |-> "norow", s |-> <<>>, n |-> 0]

ACells == {NoRow, VNone, VStr(Txt_Space), VInt(0), VStr(Txt_Zero), VFloat(100)}

BCells == {NoRow, VNaN, VFloat(200)}

BaseChoices == {VNone, VStr(Txt_Space), VFloat(50)}

\* the frame of a source named name holding cells[i] for FillIds[i]
CellFrame(cells, name) ==
    VendorFrame(
        LET held == SelectSeq([i \in DOMAIN cells |-> i], LAMBDA i : cells[i] # NoRow)
        IN  [k \in DOMAIN held |->
                VendorRow(VStr(FillIds[held[k]]), cells[held[k]], VStr(name))])

FillFamily ==
    \E n \in 1..MaxFillRows :
    \E base \in [1..n -> BaseChoices], a \in [1..n -> ACells], b \in [1..n -> BCells] :
        MergeInput(
            Frame({"loan_id", "hoa_monthly_dues_amount"},
                  [i \in 1..n |-> TapeRow(VStr(FillIds[i]), base[i])]),
            <<CellFrame(a, Txt_A), CellFrame(b, Txt_B)>>,
            <<Txt_A, Txt_B>>)

\* The reference scenario of the specification and its neighbours: tape
\* L1, L2, L3 with no values, A holding L1 and L2, B holding L1, L2 and L3
ScenarioTape ==
    Frame({"loan_id"},
          <<TapeIdRow(VStr(Txt_L1)), TapeIdRow(VStr(Txt_L2)), TapeIdRow(VStr(Txt_L3))>>)

ScenarioFamily ==
    \E a \in [1..2 -> {VFloat(100), VNaN}], b \in [1..3 -> {VFloat(200), VFloat(300), VNaN}] :
    \E swapped \in BOOLEAN :
        MergeInput(ScenarioTape,
                   IF swapped THEN <<CellFrame(b, Txt_B), CellFrame(a, Txt_A)>>
                   ELSE <<CellFrame(a, Txt_A), CellFrame(b, Txt_B)>>,
                   <<Txt_A, Txt_B>>)

\* Up to MaxSources one-row sources, named or unnamed, under any priority
\* list (repeated, blank and unmatched entries)
MaxSources == 2

MaxPriority == 3

Txt_b == <<" ", "b", ".">>

NameChoices == {VStr(Txt_A), VStr(Txt_b), VNone}

PriorityChoices == {Txt_A, Txt_B, Txt_Space}

PriorityFamily ==
    \E n \in 0..MaxSources, m \in 0..MaxPriority :
    \E names \in [1..n -> NameChoices], prio \in [1..m -> PriorityChoices] :
        MergeInput(FixedTape,
                   [k \in DOMAIN names |->
                       VendorFrame(<<VendorRow(VStr(Txt_L1), VFloat(100 + k), names[k])>>)],
                   prio)

\* One tape row with or without an amount of its own against sources A and B
\* reporting equal, different or differently written amounts, in either
\* order of the arguments and of the priority list
Txt_Y == <<"Y">>

Txt_Yr == <<"Y", " ">>

Txt_Yl == <<" ", "Y">>

DiscrepancyTapeCells == {VNone, VFloat(100), VStr(Txt_Y)}

DiscrepancyACells == {NoRow, VFloat(125), VFloat(150), VStr(Txt_Yr)}

DiscrepancyBCells == {VNaN, VFloat(150), VInt(150), VStr(Txt_Yl)}

DiscrepancyFamily ==
    \E base \in DiscrepancyTapeCells, a \in DiscrepancyACells, b \in DiscrepancyBCells :
    \E swapped \in BOOLEAN, prio \in {<<Txt_A, Txt_B>>, <<Txt_B, Txt_A>>} :
        MergeInput(
            Frame({"loan_id", "hoa_monthly_dues_amount"}, <<TapeRow(VStr(Txt_L1), base)>>),
            IF swapped THEN <<CellFrame(<<b>>, Txt_B), CellFrame(<<a>>, Txt_A)>>
            ELSE <<CellFrame(<<a>>, Txt_A), CellFrame(<<b>>, Txt_B)>>,
            prio)

\* Up to MaxKeySources sources, each with one row of an identifier of its
\* own, named "A" or "A_2": names shared by sources and names that look
\* like the key made for a second occurrence
MaxKeySources == 3

Txt_A2 == <<"A", "_", "2">>

KeyFamily ==
    \E n \in 0..MaxKeySources : \E names \in [1..n -> {Txt_A, Txt_A2}] :
        MergeInput(FixedTape,
                   [k \in 1..n |->
                       VendorFrame(<<VendorRow(VStr(FillIds[((k - 1) % Len(FillIds)) + 1]),
                                               VFloat(100 + k), VStr(names[k]))>>)],
                   <<>>)

\* One tape row, with or without provenance of its own, against a source A
\* whose row for it may lack an amount, a name and a file, whose other row
\* may declare a name and a file, and an optional source B that provides
\* the amount or another field
Txt_T == <<"T">>

Txt_A1 == <<"A", "1">>

Txt_N == <<"N">>

PROVENANCE_COLUMNS == VENDOR_COLUMNS \cup {"hoa_notes"}

ProvenanceRow(loan_id, amount, notes, name, file) ==
    [c \in PROVENANCE_COLUMNS |->
        CASE c = "loan_id" -> loan_id
          [] c = "hoa_monthly_dues_amount" -> amount
          [] c = "hoa_notes" -> notes
          [] c = "hoa_source" -> name
          [] OTHER -> file]

FileOf(name) == VStr(name \o <<".", "x">>)

ProvenanceTapes ==
    {Frame({"loan_id"}, <<TapeIdRow(VStr(Txt_L1))>>),
     Frame({"loan_id", "hoa_source", "hoa_source_file"},
           <<[c \in {"loan_id", "hoa_source", "hoa_source_file"} |->
                CASE c = "loan_id" -> VStr(Txt_L1)
                  [] c = "hoa_source" -> VStr(Txt_T)
                  [] OTHER -> FileOf(Txt_T)]>>)}

ProvenanceASources ==
    {Frame(PROVENANCE_COLUMNS,
           <<ProvenanceRow(VStr(Txt_L1), amount, VNone, name, file),
             ProvenanceRow(VStr(Txt_X9), VNaN, VNone, declared_name, declared_file)>>) :
        amount \in {VNaN, VFloat(100)},
        name \in {VNone, VStr(Txt_A1)},
        file \in {VNone, FileOf(Txt_A1)},
        declared_name \in {VNone, VStr(Txt_A)},
        declared_file \in {VNone, FileOf(Txt_A)}}

ProvenanceBSources ==
    {<<>>,
     <<Frame(PROVENANCE_COLUMNS,
             <<ProvenanceRow(VStr(Txt_L1), VFloat(200), VNone, VStr(Txt_B), FileOf(Txt_B))>>)>>,
     <<Frame(PROVENANCE_COLUMNS,
             <<ProvenanceRow(VStr(Txt_L1), VNaN, VStr(Txt_N), VStr(Txt_B), FileOf(Txt_B))>>)>>}

ProvenanceFamily ==
    \E tape \in ProvenanceTapes, a \in ProvenanceASources, b \in ProvenanceBSources :
        MergeInput(tape, <<a>> \o b, <<Txt_A, Txt_A1, Txt_B>>)

\* The fixed tape against sources that hold rows for identifiers the tape
\* lacks: before or after the rows it has, under the source's only name or
\* under none, or alone in the source
MaxExtraSources == 2

ExtraSources ==
    {VendorFrame(<<VendorRow(VStr(Txt_X9), VFloat(400), VStr(Txt_B)),
                   VendorRow(VStr(Txt_L1), VFloat(100), VNone)>>),
     VendorFrame(<<VendorRow(VStr(Txt_L1), VFloat(150), VStr(Txt_A)),
                   VendorRow(VStr(Txt_X9), VFloat(70), VStr(Txt_A))>>),
     VendorFrame(<<VendorRow(VStr(Txt_X9), VFloat(125), VNone),
                   VendorRow(VStr(Txt_L2), VFloat(100), VNone),
                   VendorRow(VStr(Txt_Stars), VFloat(400), VStr(Txt_A))>>),
     VendorFrame(<<VendorRow(VStr(Txt_X9), VNaN, VNone),
                   VendorRow(VStr(Txt_L3), VFloat(5), VNone)>>)}

ExtraFamily ==
    \E n \in 0..MaxExtraSources : \E sources \in [1..n -> ExtraSources] :
    \E prio \in {<<Txt_B>>, <<Txt_B, Txt_A>>} :
        MergeInput(FixedTape, sources, prio)

MergeInputs ==
    \/ ExtraFamily
    \/ ProvenanceFamily
    \/ KeyFamily
    \/ TapeFamily
    \/ VendorFamily
    \/ FillFamily
    \/ ScenarioFamily
    \/ PriorityFamily
    \/ DiscrepancyFamily

(***************************************************************************)
(* One call of merge_hoa_sources, phase by phase                           *)
(***************************************************************************)
\* a call of compute_qa on its own: the arguments, the phase of the call,
\* the locals of the function and the dictionary returned
VARIABLES tape_df, vendor_df, qa_merged_df, tape_raw_rows, qpc, tape_rows,
          tape_unique, tape_dupes, tape_id_set, vendor_rows, vendor_ids,
          matched, qa_dict

qa_args == <<tape_df, vendor_df, qa_merged_df, tape_raw_rows>>

qa_vars ==
    <<qa_args, qpc, tape_rows, tape_unique, tape_dupes, tape_id_set,
      vendor_rows, vendor_ids, matched, qa_dict>>

\* no call of compute_qa on its own is under way
QaIdle ==
    /\ tape_df = VNone
    /\ vendor_df = VNone
    /\ qa_merged_df = VNone
    /\ tape_raw_rows = VNone
    /\ qpc = "idle"
    /\ tape_rows = 0
    /\ tape_unique = 0
    /\ tape_dupes = 0
    /\ tape_id_set = {}
    /\ vendor_rows = 0
    /\ vendor_ids = {}
    /\ matched = 0
    /\ qa_dict = <<>>

\* a call of assert_unique_vendor_ids on its own: the argument, the phase of
\* the call, what find_duplicate_ids gave and how the call ended
VARIABLES dup_df, dpc, duplicate_rows, outcome

dup_vars == <<dup_df, dpc, duplicate_rows, outcome>>

\* no call of assert_unique_vendor_ids on its own is under way
DupIdle ==
    /\ dup_df = VNone
    /\ dpc = "idle"
    /\ duplicate_rows = <<>>
    /\ outcome = <<>>

\* the vendor loop of the report run: the report frame, the tape's
\* identifiers, the processed vendors in priority order, how many of them
\* have been applied and what the last application returned
VARIABLES report_df, tape_ids, ordered_vendors, applied, amount_map

fill_vars == <<report_df, tape_ids, ordered_vendors, applied, amount_map>>

\* no vendor loop is under way
FillIdle ==
    /\ report_df = Frame({}, <<>>)
    /\ tape_ids = <<>>
    /\ ordered_vendors = <<>>
    /\ applied = 0
    /\ amount_map = <<>>

\* a call of _run_enrichment_sql_on_connection: the result sets the query
\* produces, the driver call that fails (if any), the position in the
\* function, the cursor's current result set and whether it is open, what has
\* been done on the connection, the exception in flight and how the call ended
VARIABLES result_sets, fault, spc, result_index, cursor_open, loaded, committed,
          pending, sql_outcome

sql_vars ==
    <<result_sets, fault, spc, result_index, cursor_open, loaded, committed,
      pending, sql_outcome>>

\* no call of _run_enrichment_sql_on_connection is under way
SqlIdle ==
    /\ result_sets = <<>>
    /\ fault = "none"
    /\ spc = "idle"
    /\ result_index = 0
    /\ cursor_open = FALSE
    /\ loaded = FALSE
    /\ committed = FALSE
    /\ pending = ""
    /\ sql_outcome = <<>>

\* the fields of the waterfall taken in any order: for every value column the
\* next rank its loop applies, and its selected_values and selected_rank
VARIABLES field_next, field_values

field_vars == <<field_next, field_values>>

\* no field of the waterfall has been started on its own
FieldIdle ==
    /\ field_next = [c \in Range(HOA_VALUE_COLUMNS) |-> 0]
    /\ field_values = [c \in Range(HOA_VALUE_COLUMNS) |-> <<>>]

\* a call of normalize_loan_id on its own: the argument, the phase of the
\* call, the value returned, and the value returned for it in turn
VARIABLES x, npc, normalized, renormalized

normalize_vars == <<x, npc, normalized, renormalized>>

\* no call of normalize_loan_id on its own is under way
NormalizeIdle ==
    /\ x = VNone
    /\ npc = "idle"
    /\ normalized = VNone
    /\ renormalized = VNone

merge_vars ==
    <<loan_master_df, hoa_sources, priority, pc, merged_df, base_rows,
      prepared_sources, ordered_sources, work_df, selected_rank,
      vendor_exceptions, raised>>

vars == <<merge_vars, normalize_vars, qa_vars, dup_vars, fill_vars, sql_vars, field_vars>>

\* the variables that belong to the other calls, which a step of one call
\* leaves alone
beside_merge ==
    <<normalize_vars, qa_vars, dup_vars, fill_vars, sql_vars, field_vars>>

beside_normalize ==
    <<merge_vars, qa_vars, dup_vars, fill_vars, sql_vars, field_vars>>

beside_qa ==
    <<merge_vars, normalize_vars, dup_vars, fill_vars, sql_vars, field_vars>>

beside_dup ==
    <<merge_vars, normalize_vars, qa_vars, fill_vars, sql_vars, field_vars>>

beside_fill ==
    <<merge_vars, normalize_vars, qa_vars, dup_vars, sql_vars, field_vars>>

beside_sql ==
    <<merge_vars, normalize_vars, qa_vars, dup_vars, fill_vars, field_vars>>

args == <<loan_master_df, hoa_sources, priority>>

NoError == Returned(<<>>)

Init ==
    /\ NormalizeIdle
    /\ QaIdle
    /\ DupIdle
    /\ FillIdle
    /\ SqlIdle
    /\ FieldIdle
    /\ MergeInputs
    /\ pc = "tape"
    /\ merged_df = <<>>
    /\ base_rows = <<>>
    /\ prepared_sources = <<>>
    /\ ordered_sources = <<>>
    /\ work_df = <<>>
    /\ selected_rank = <<>>
    /\ vendor_exceptions = <<>>
    /\ raised = NoError

\* what the writes of lines 235-247 leave in the frame they are made on
TapeWritten(loan_master) ==
    IF "loan_id" \notin loan_master.columns THEN loan_master
    ELSE IF NormalizeTape(loan_master).ok
    THEN Frame(TapeColumns(loan_master), NormalizedTapeRows(loan_master))
    ELSE Frame(loan_master.columns,
               [i \in DOMAIN loan_master.rows |->
                   [loan_master.rows[i] EXCEPT !["loan_id"] = normalize_loan_id(@)]])

\* what the writes of canonical.py 47-50 and engine.py 163 leave in the frame
\* they are made on
SourceWritten(source) ==
    Frame(Range(HOA_EXTRACTOR_COLUMNS),
          [i \in DOMAIN source.rows |->
              [enforce_hoa_extractor_columns(source)[i]
                  EXCEPT !["loan_id"] = normalize_loan_id(@)]])

\* variant: no copy is taken and the writes land in the caller's frame
CallerFrameAliased(original, written) == written

\* loan_master_df.copy(), df.copy(): the caller's frame after the writes made
\* on the copy
CallerFrame(original, written) == original

\* lines 231-249
CheckTape ==
    /\ pc = "tape"
    /\ LET r == NormalizeTape(loan_master_df)
       IN  IF r.ok
           THEN /\ merged_df' = r.value
                /\ base_rows' = r.value
                /\ raised' = raised
                /\ pc' = "prepare"
           ELSE /\ raised' = r
                /\ pc' = "raised"
                /\ UNCHANGED <<merged_df, base_rows>>
    /\ loan_master_df' = CallerFrame(loan_master_df, TapeWritten(loan_master_df))
    /\ UNCHANGED <<beside_merge, hoa_sources, priority, prepared_sources, ordered_sources,
                   work_df, selected_rank, vendor_exceptions>>

\* line 251
PrepareSources ==
    /\ pc = "prepare"
    /\ LET r == PrepareAll(hoa_sources)
       IN  IF r.ok
           THEN /\ prepared_sources' = r.value
                /\ raised' = raised
                /\ pc' = "resolve"
           ELSE /\ raised' = r
                /\ pc' = "raised"
                /\ UNCHANGED prepared_sources
    /\ hoa_sources' =
           [k \in DOMAIN hoa_sources |->
               CallerFrame(hoa_sources[k], SourceWritten(hoa_sources[k]))]
    /\ UNCHANGED <<beside_merge, loan_master_df, priority, merged_df, base_rows,
                   ordered_sources, work_df, selected_rank, vendor_exceptions>>

\* line 252
ResolvePriority ==
    /\ pc = "resolve"
    /\ ordered_sources' = _resolve_priority_order(prepared_sources, priority)
    /\ pc' = "join"
    /\ UNCHANGED <<beside_merge, args, merged_df, base_rows, prepared_sources, work_df,
                   selected_rank, vendor_exceptions, raised>>

\* lines 254-263
JoinSources ==
    /\ pc = "join"
    /\ work_df' = JoinAll(merged_df, ordered_sources)
    /\ pc' = "fill"
    /\ UNCHANGED <<beside_merge, args, merged_df, base_rows, prepared_sources, ordered_sources,
                   selected_rank, vendor_exceptions, raised>>

\* lines 265-282
WaterfallFill ==
    /\ pc = "fill"
    /\ LET selected == Waterfall(work_df, base_rows)
       IN  /\ merged_df' =
                [i \in DOMAIN merged_df |->
                    [c \in DOMAIN merged_df[i] |->
                        IF c \in Range(HOA_VALUE_COLUMNS) THEN selected[i][c].value
                        ELSE merged_df[i][c]]]
           /\ selected_rank' =
                [i \in DOMAIN merged_df |->
                    [c \in Range(HOA_VALUE_COLUMNS) |-> selected[i][c].rank]]
    /\ pc' = "provenance"
    /\ UNCHANGED <<beside_merge, args, base_rows, prepared_sources, ordered_sources, work_df,
                   vendor_exceptions, raised>>

\* a row with one more column
WithColumn(row, column, value) ==
    [c \in DOMAIN row \cup {column} |-> IF c = column THEN value ELSE row[c]]

\* lines 284-312
ResolveProvenance ==
    /\ pc = "provenance"
    /\ merged_df' =
          [i \in DOMAIN merged_df |->
              LET used == Provenance(work_df[i],
                              [c \in Range(HOA_VALUE_COLUMNS) |->
                                  [rank |-> selected_rank[i][c]]],
                              base_rows[i], ordered_sources)
              IN  WithColumn(WithColumn(merged_df[i], "hoa_source_used", used.source),
                             "hoa_source_file_used", used.file)]
    /\ pc' = "discrepancy"
    /\ UNCHANGED <<beside_merge, args, base_rows, prepared_sources, ordered_sources, work_df,
                   selected_rank, vendor_exceptions, raised>>

VBool(b) == [t |-> "bool", s |-> <<>>, n |-> IF b THEN 1 ELSE 0]

\* lines 314-331
FlagDiscrepancies ==
    /\ pc = "discrepancy"
    /\ merged_df' =
          [i \in DOMAIN merged_df |->
              WithColumn(merged_df[i], "hoa_discrepancy_flag",
                         VBool(DiscrepancyFlag(work_df[i], base_rows[i])))]
    /\ pc' = "exceptions"
    /\ UNCHANGED <<beside_merge, args, base_rows, prepared_sources, ordered_sources, work_df,
                   selected_rank, vendor_exceptions, raised>>

\* lines 333-354
ReportExceptions ==
    /\ pc = "exceptions"
    /\ vendor_exceptions' = VendorExceptions(merged_df, ordered_sources)
    /\ pc' = "returned"
    /\ UNCHANGED <<beside_merge, args, merged_df, base_rows, prepared_sources, ordered_sources,
                   work_df, selected_rank, raised>>

Next ==
    \/ CheckTape
    \/ PrepareSources
    \/ ResolvePriority
    \/ JoinSources
    \/ WaterfallFill
    \/ ResolveProvenance
    \/ FlagDiscrepancies
    \/ ReportExceptions

Spec == Init /\ [][Next]_vars

(***************************************************************************)
(* Vocabulary of the properties, stated on the arguments of the call       *)
(***************************************************************************)
Started == pc # "tape"

Filled == pc \in {"provenance", "discrepancy", "exceptions", "returned"}

\* the identifier of row i of a raw frame after normalisation (Absent when
\* the frame has no loan_id column)
NormId(df, i) ==
    IF "loan_id" \in df.columns THEN normalize_loan_id(df.rows[i]["loan_id"]) ELSE VNone

AbsentRows(df) == {i \in DOMAIN df.rows : NormId(df, i) = VNone}

\* the identifiers that two or more rows of a raw frame normalise to
RepeatedIds(df) ==
    {NormId(df, i).s : i \in {j \in DOMAIN df.rows :
        /\ NormId(df, j) # VNone
        /\ \E k \in DOMAIN df.rows : k # j /\ NormId(df, k) = NormId(df, j)}}

TapeValid == "loan_id" \in loan_master_df.columns /\ AbsentRows(loan_master_df) = {}

SourcesPass == \A k \in DOMAIN hoa_sources : RepeatedIds(hoa_sources[k]) = {}

\* blank, by the specification's definition: null, NaN or whitespace-only text
BlankValue(v) ==
    \/ v.t \in {"None", "nan"}
    \/ v.t = "str" /\ \A i \in DOMAIN v.s : v.s[i] \in Whitespace

\* what the raw frame df holds in column c for identifier id: the cell of its
\* row with that identifier, None when it has the row but not the column,
\* NoRow when it has no such row
\* the rows of the raw frame df whose identifier normalises to id
RowsOf(df, id) == {i \in DOMAIN df.rows : NormId(df, i) = id}

\* the cell of column c in one of the rows held (None without the column,
\* NoRow without a row)
CellOf(df, held, c) ==
    IF held = {} THEN NoRow
    ELSE IF c \in df.columns THEN df.rows[CHOOSE i \in held : TRUE][c] ELSE VNone

HeldBy(df, id, c) == CellOf(df, RowsOf(df, id), c)

\* a frame without the column provides nothing, whatever rows it has
Provides(df, id, c) ==
    /\ c \in df.columns
    /\ LET held == HeldBy(df, id, c)
       IN  held # NoRow /\ ~BlankValue(held)

\* the raw frame of the source of rank k (0-based) in the resolved order
RankedFrame(k) == hoa_sources[ordered_sources[k + 1].original_index + 1]

Ranks == 0..(Len(ordered_sources) - 1)

\* the tape's own value of row i in column c (None when it lacks the column)
TapeValue(i, c) ==
    IF c \in loan_master_df.columns THEN loan_master_df.rows[i][c] ELSE VNone

ValueColumns == Range(HOA_VALUE_COLUMNS)

(***************************************************************************)
(* C1  Population preservation                                             *)
(***************************************************************************)
\* C1: when every tape identifier is non-absent and every source passes
\* preparation, the call does not fail, the join keeps exactly one row per
\* tape row, and the merged rows are the tape rows in tape order, each with
\* the normalised tape identifier as loan_id.
C1_PopulationPreserved ==
    (TapeValid /\ SourcesPass) =>
        /\ pc # "raised"
        /\ Started =>
              /\ Len(merged_df) = Len(loan_master_df.rows)
              /\ \A i \in DOMAIN merged_df :
                    /\ merged_df[i]["loan_id"] = NormId(loan_master_df, i)
                    /\ merged_df[i]["loan_id"].t = "str"
        /\ pc \in {"fill", "provenance", "discrepancy", "exceptions", "returned"} =>
              /\ Len(work_df) = Len(loan_master_df.rows)
              /\ \A i \in DOMAIN work_df : work_df[i].loan_id = merged_df[i]["loan_id"]

\* a returned merge of a tape with a repeated identifier against two sources,
\* one of them holding an identifier the tape lacks and missing a tape row
C1_Witness ==
    /\ pc = "returned"
    /\ Len(merged_df) = 3
    /\ merged_df[1]["loan_id"] = merged_df[3]["loan_id"]
    /\ Len(hoa_sources) = 2
    /\ \E k \in DOMAIN vendor_exceptions :
          /\ vendor_exceptions[k].entry.extra_in_vendor # <<>>
          /\ vendor_exceptions[k].entry.missing_in_vendor # <<>>

\* the empty source list is covered as well
C1_WitnessNoSources == pc = "returned" /\ hoa_sources = <<>> /\ Len(merged_df) = 2

(***************************************************************************)
(* C2  Waterfall priority                                                  *)
(***************************************************************************)
\* the first rank whose source provides a non-blank value, if any
FirstProvider(id, c) ==
    CHOOSE k \in Ranks :
        /\ Provides(RankedFrame(k), id, c)
        /\ \A j \in 0..(k - 1) : ~Provides(RankedFrame(j), id, c)

SomeProvider(id, c) == \E k \in Ranks : Provides(RankedFrame(k), id, c)

\* the frames of the argument list whose display name matches a priority entry
FramesNamed(entry) ==
    {k \in DOMAIN prepared_sources :
        _normalize_source_key(prepared_sources[k].source_name)
            = _normalize_source_key(entry)}

\* C2: for every tape row and value column, the merged value is the value of
\* the first source in resolved order that holds a non-blank value for the
\* row's identifier, and the recorded rank is that source's rank; and with a
\* priority list [A, B] naming one source each, A's non-blank value wins
\* whatever B holds, B filling only where A is blank or has no row.
C2_WaterfallPriority ==
    Filled =>
        /\ \A i \in DOMAIN merged_df : \A c \in ValueColumns :
              LET id == merged_df[i]["loan_id"]
              IN  SomeProvider(id, c) =>
                      LET first == FirstProvider(id, c)
                      IN  /\ merged_df[i][c] = HeldBy(RankedFrame(first), id, c)
                          /\ selected_rank[i][c] = first
        /\ (/\ Len(priority) = 2
            /\ Cardinality(FramesNamed(priority[1])) = 1
            /\ Cardinality(FramesNamed(priority[2])) = 1
            /\ FramesNamed(priority[1]) # FramesNamed(priority[2])) =>
              LET A == hoa_sources[CHOOSE k \in FramesNamed(priority[1]) : TRUE]
                  B == hoa_sources[CHOOSE k \in FramesNamed(priority[2]) : TRUE]
              IN  \A i \in DOMAIN merged_df : \A c \in ValueColumns :
                      LET id == merged_df[i]["loan_id"]
                      IN  /\ Provides(A, id, c) => merged_df[i][c] = HeldBy(A, id, c)
                          /\ (~Provides(A, id, c) /\ Provides(B, id, c)) =>
                                merged_df[i][c] = HeldBy(B, id, c)
                          /\ (Provides(B, id, c) /\ merged_df[i][c] = HeldBy(B, id, c)) =>
                                \/ ~Provides(A, id, c)
                                \/ HeldBy(A, id, c) = HeldBy(B, id, c)

\* A, passed second but first in priority, and B hold different amounts for
\* a row and the merged row carries A's
C2_Witness ==
    /\ pc = "returned"
    /\ priority = <<Txt_A, Txt_B>>
    /\ Len(prepared_sources) = 2
    /\ prepared_sources[2].source_name = Txt_A
    /\ prepared_sources[1].source_name = Txt_B
    /\ \E i \in DOMAIN merged_df :
          LET id == merged_df[i]["loan_id"]
              c == "hoa_monthly_dues_amount"
          IN  /\ Provides(hoa_sources[2], id, c)
              /\ Provides(hoa_sources[1], id, c)
              /\ HeldBy(hoa_sources[1], id, c) # HeldBy(hoa_sources[2], id, c)
              /\ merged_df[i][c] = HeldBy(hoa_sources[2], id, c)
              /\ selected_rank[i][c] = 0

(***************************************************************************)
(* C3  Fallback to the tape's own value                                    *)
(***************************************************************************)
\* C3: where no source provides a non-blank value for a row and column, the
\* merged value is the tape's own non-blank value with the "pre-existing"
\* rank, or stays unset with the "none" rank when the tape has no value or
\* lacks the column; and the tape's value is never used where some source
\* provides a non-blank value.
C3_Fallback ==
    Filled =>
        \A i \in DOMAIN merged_df : \A c \in ValueColumns :
            LET id == merged_df[i]["loan_id"]
                own == TapeValue(i, c)
                provided == SomeProvider(id, c)
            IN  /\ (~provided /\ ~BlankValue(own)) =>
                      /\ merged_df[i][c] = own
                      /\ selected_rank[i][c] = RANK_BASE
                /\ (~provided /\ BlankValue(own)) =>
                      /\ merged_df[i][c] = VNone
                      /\ selected_rank[i][c] = RANK_NONE
                /\ selected_rank[i][c] = RANK_BASE => ~provided

\* a returned merge with sources where one row fell back to the tape's own
\* amount, one row, blank in a source and on the tape, stayed unset, and the
\* tape lacks another column altogether
C3_Witness ==
    /\ pc = "returned"
    /\ Len(ordered_sources) >= 1
    /\ "hoa_notes" \notin loan_master_df.columns
    /\ \E i, j \in DOMAIN merged_df :
          /\ selected_rank[i]["hoa_monthly_dues_amount"] = RANK_BASE
          /\ merged_df[i]["hoa_monthly_dues_amount"] = VFloat(50)
          /\ selected_rank[j]["hoa_monthly_dues_amount"] = RANK_NONE
          /\ \E k \in Ranks : HeldBy(RankedFrame(k), merged_df[j]["loan_id"],
                                     "hoa_monthly_dues_amount") = VNaN
          /\ merged_df[j]["hoa_monthly_dues_amount"] = VNone
          /\ selected_rank[j]["hoa_notes"] = RANK_NONE

(***************************************************************************)
(* C4  Zero is a value                                                     *)
(***************************************************************************)
IsZero(v) ==
    \/ v.t \in {"int", "float"} /\ v.n = 0
    \/ v.t = "str" /\ v.s = Txt_Zero

\* every cell of the frames passed to the call
ArgumentCells ==
    {loan_master_df.rows[i][c] : i \in DOMAIN loan_master_df.rows, c \in loan_master_df.columns}
    \cup UNION {{hoa_sources[k].rows[i][c] :
                    i \in DOMAIN hoa_sources[k].rows, c \in hoa_sources[k].columns} :
                k \in DOMAIN hoa_sources}

\* C4: _is_blank holds of exactly null, NaN and whitespace-only text, so not
\* of 0 or "0"; and a source that holds 0 or "0" for a row, every source
\* before it in resolved order holding nothing or a blank, supplies the
\* merged value with its rank, whatever later sources and the tape hold.
C4_ZeroIsAValue ==
    /\ \A v \in ArgumentCells :
          /\ _is_blank(v) <=> BlankValue(v)
          /\ IsZero(v) => ~_is_blank(v)
    /\ Filled =>
          \A i \in DOMAIN merged_df : \A c \in ValueColumns : \A k \in Ranks :
              LET id == merged_df[i]["loan_id"]
                  held == HeldBy(RankedFrame(k), id, c)
              IN  (/\ c \in RankedFrame(k).columns
                   /\ IsZero(held)
                   /\ \A j \in 0..(k - 1) : ~Provides(RankedFrame(j), id, c)) =>
                      /\ merged_df[i][c] = held
                      /\ selected_rank[i][c] = k

\* the first source holds 0 (as a number or as text) for a row, the second
\* holds 200 and the tape 50: the merged amount is the zero
C4_Witness ==
    /\ pc = "returned"
    /\ Len(ordered_sources) = 2
    /\ \E i \in DOMAIN merged_df :
          LET id == merged_df[i]["loan_id"]
              c == "hoa_monthly_dues_amount"
          IN  /\ HeldBy(RankedFrame(0), id, c) = VStr(Txt_Zero)
              /\ HeldBy(RankedFrame(1), id, c) = VFloat(200)
              /\ TapeValue(i, c) = VFloat(50)
              /\ merged_df[i][c] = VStr(Txt_Zero)
              /\ selected_rank[i][c] = 0

\* the same with the number 0
C4_WitnessNumber ==
    /\ pc = "returned"
    /\ Len(ordered_sources) = 2
    /\ \E i \in DOMAIN merged_df :
          LET id == merged_df[i]["loan_id"]
              c == "hoa_monthly_dues_amount"
          IN  /\ HeldBy(RankedFrame(0), id, c) = VInt(0)
              /\ HeldBy(RankedFrame(1), id, c) = VFloat(200)
              /\ TapeValue(i, c) = VFloat(50)
              /\ merged_df[i][c] = VInt(0)

(***************************************************************************)
(* C5  The reference scenario                                              *)
(***************************************************************************)
ScenarioA == CellFrame(<<VFloat(100), VNaN>>, Txt_A)

ScenarioB == CellFrame(<<VFloat(200), VFloat(300), VNaN>>, Txt_B)

IsScenario ==
    /\ loan_master_df = ScenarioTape
    /\ hoa_sources \in {<<ScenarioA, ScenarioB>>, <<ScenarioB, ScenarioA>>}
    /\ priority = <<Txt_A, Txt_B>>

\* the entry of the returned exception map under a key
EntriesOf(key) ==
    {vendor_exceptions[k].entry : k \in {j \in DOMAIN vendor_exceptions :
                                            vendor_exceptions[j].key = key}}

\* C5: tape L1, L2, L3 without values, A (first priority) holding L1=100 and
\* L2 blank, B holding L1=200, L2=300 and L3 blank: the call returns
\* L1=100, L2=300, L3 unset, flags only L1 as discrepant, and reports
\* missing_in_vendor [L3] for A and [] for B.
C5_ReferenceScenario ==
    IsScenario =>
        /\ pc # "raised"
        /\ pc = "returned" =>
              /\ [i \in DOMAIN merged_df |-> merged_df[i]["loan_id"].s]
                    = <<<<"L", "1">>, <<"L", "2">>, <<"L", "3">>>>
              /\ [i \in DOMAIN merged_df |-> merged_df[i]["hoa_monthly_dues_amount"]]
                    = <<VFloat(100), VFloat(300), VNone>>
              /\ [i \in DOMAIN merged_df |-> merged_df[i]["hoa_discrepancy_flag"]]
                    = <<VBool(TRUE), VBool(FALSE), VBool(FALSE)>>
              /\ Len(vendor_exceptions) = 2
              /\ \E a \in EntriesOf(Txt_A) : a.missing_in_vendor = <<<<"L", "3">>>>
              /\ \E b \in EntriesOf(Txt_B) : b.missing_in_vendor = <<>>

C5_Witness == IsScenario /\ pc = "returned"

(***************************************************************************)
(* C6  Uniqueness of the tape identifiers                                  *)
(***************************************************************************)
\* C6: a tape in which two or more rows normalise to the same identifier is
\* rejected: the call never returns a merged dataset for it.
C6_DuplicateTapeIdsRejected ==
    RepeatedIds(loan_master_df) # {} => pc # "returned"

(***************************************************************************)
(* C7  Blank tape identifiers                                              *)
(***************************************************************************)
\* C7: when at least one tape identifier normalises to Absent the call goes
\* no further than the tape check, whatever the sources hold, and raises the
\* tape error carrying the exact number of such rows, with no merged row,
\* no prepared source, no join and no exception map produced.
C7_BlankTapeIdsFatal ==
    ("loan_id" \in loan_master_df.columns /\ AbsentRows(loan_master_df) # {}) =>
        /\ pc \in {"tape", "raised"}
        /\ pc = "raised" =>
              /\ raised.error = "InvalidTapeLoanId"
              /\ raised.count = Cardinality(AbsentRows(loan_master_df))
              /\ merged_df = <<>>
              /\ prepared_sources = <<>>
              /\ work_df = <<>>
              /\ vendor_exceptions = <<>>

\* two of three tape rows are absent, and a source that would itself fail
\* preparation is among the arguments
C7_Witness ==
    /\ pc = "raised"
    /\ raised.count = 2
    /\ Len(loan_master_df.rows) = 3
    /\ \E k \in DOMAIN hoa_sources : RepeatedIds(hoa_sources[k]) # {}

(***************************************************************************)
(* C8  Duplicate identifiers in a vendor source                            *)
(***************************************************************************)
Increasing(ids) == \A i, j \in DOMAIN ids : i < j => StrLess(ids[i], ids[j])

\* the sources of the argument list with a repeated identifier
RepeatingSources == {k \in DOMAIN hoa_sources : RepeatedIds(hoa_sources[k]) # {}}

\* C8: preparing a source in which two or more rows normalise to the same
\* non-absent identifier raises the duplicate error listing exactly its
\* repeated identifiers in increasing order; the call then never gets past
\* source preparation, and on a valid tape it ends with that error for the
\* first such source and returns nothing.
C8_DuplicateVendorIdsRejected ==
    /\ \A k \in RepeatingSources :
          LET r == _prepare_source(hoa_sources[k], k - 1)
          IN  /\ ~r.ok
              /\ r.error = "DuplicateVendorLoanId"
              /\ Range(r.ids) = RepeatedIds(hoa_sources[k])
              /\ Increasing(r.ids)
    /\ RepeatingSources # {} =>
          /\ pc \in {"tape", "prepare", "raised"}
          /\ vendor_exceptions = <<>>
          /\ (pc = "raised" /\ TapeValid) =>
                LET first == CHOOSE k \in RepeatingSources :
                                 \A j \in RepeatingSources : k <= j
                IN  /\ raised.error = "DuplicateVendorLoanId"
                    /\ Range(raised.ids) = RepeatedIds(hoa_sources[first])
                    /\ Increasing(raised.ids)
                    /\ prepared_sources = <<>>

\* rows L1, L2, L2, L1: the repeat of L2 is met before the repeat of L1 and
\* the error lists L1 before L2
C8_Witness ==
    /\ pc = "raised"
    /\ raised.error = "DuplicateVendorLoanId"
    /\ raised.ids = <<<<"L", "1">>, <<"L", "2">>>>
    /\ Len(hoa_sources[1].rows) = 4
    /\ [i \in 1..4 |-> NormId(hoa_sources[1], i).s]
          = <<<<"L", "1">>, <<"L", "2">>, <<"L", "2">>, <<"L", "1">>>>

(***************************************************************************)
(* C9  Vendor rows without an identifier                                   *)
(***************************************************************************)
Prepared == pc \in {"resolve", "join", "fill", "provenance", "discrepancy",
                    "exceptions", "returned"}

Joined == pc \in {"fill", "provenance", "discrepancy", "exceptions", "returned"}

\* C9: vendor rows whose identifier normalises to Absent raise nothing (the
\* duplicate error is raised only for a repeated non-absent identifier),
\* are left out of the prepared source however many they are, supply no
\* cell of the join, and are not listed in extra_in_vendor.
C9_AbsentVendorRowsDropped ==
    /\ (pc = "raised" /\ raised.error = "DuplicateVendorLoanId") =>
          /\ RepeatingSources # {}
          /\ \A i \in DOMAIN raised.ids : raised.ids[i] # <<>>
    /\ (TapeValid /\ RepeatingSources = {}) => pc # "raised"
    /\ Prepared =>
          \A k \in DOMAIN prepared_sources :
              LET df == hoa_sources[k]
                  canonical_df == prepared_sources[k].canonical_df
              IN  /\ Len(canonical_df) = Len(df.rows) - Cardinality(AbsentRows(df))
                  /\ \A i \in DOMAIN canonical_df : canonical_df[i]["loan_id"].t = "str"
    /\ Joined =>
          \A i \in DOMAIN work_df : \A k \in Ranks :
              LET rows == RowsOf(RankedFrame(k), work_df[i].loan_id)
              IN  \A c \in Range(JOIN_VALUE_COLUMNS) :
                      LET held == CellOf(RankedFrame(k), rows, c)
                      IN  work_df[i].src[k + 1][c] = IF held = NoRow THEN VNaN ELSE held
    /\ pc = "returned" =>
          \A e \in DOMAIN vendor_exceptions :
              LET extra == vendor_exceptions[e].entry.extra_in_vendor
              IN  /\ \E k \in Ranks :
                        LET df == RankedFrame(k)
                        IN  Range(extra) =
                                {NormId(df, i).s : i \in DOMAIN df.rows \ AbsentRows(df)}
                                    \ {merged_df[i]["loan_id"].s : i \in DOMAIN merged_df}
                  /\ \A i \in DOMAIN extra : extra[i] # <<>>
                  /\ vendor_exceptions[e].entry.extra_in_vendor_count = Len(extra)

\* a returned merge in which one source holds two rows without identifier,
\* both with an amount, beside a row of the tape
C9_Witness ==
    /\ pc = "returned"
    /\ \E k \in DOMAIN hoa_sources :
          /\ Cardinality(AbsentRows(hoa_sources[k])) >= 2
          /\ Len(prepared_sources[k].canonical_df) = 1
          /\ \A i \in AbsentRows(hoa_sources[k]) :
                ~BlankValue(hoa_sources[k].rows[i]["hoa_monthly_dues_amount"])

(***************************************************************************)
(* C10  Order of the sources                                               *)
(***************************************************************************)
Resolved == pc \in {"join", "fill", "provenance", "discrepancy", "exceptions", "returned"}

\* the priority entries a prepared source's display name matches
MatchingEntries(source) ==
    {m \in DOMAIN priority :
        /\ _normalize_source_key(priority[m]) # <<>>
        /\ _normalize_source_key(priority[m]) = _normalize_source_key(source.source_name)}

Matched(source) == MatchingEntries(source) # {}

FirstOccurrence(source) ==
    CHOOSE m \in MatchingEntries(source) : \A o \in MatchingEntries(source) : m <= o

\* C10: the resolved order is a permutation of the prepared sources in which
\* every source matching a priority entry precedes every source matching
\* none, matched sources follow the first occurrence of their name in the
\* priority list, and unmatched sources (like sources of one name) keep
\* their input order.
C10_PriorityOrdering ==
    Resolved =>
        /\ Len(ordered_sources) = Len(prepared_sources)
        /\ Range(ordered_sources) = Range(prepared_sources)
        /\ \A p, q \in DOMAIN ordered_sources :
              p < q =>
                 LET a == ordered_sources[p]
                     b == ordered_sources[q]
                 IN  /\ ~(Matched(b) /\ ~Matched(a))
                     /\ (Matched(a) /\ Matched(b)) =>
                           \/ FirstOccurrence(a) < FirstOccurrence(b)
                           \/ /\ FirstOccurrence(a) = FirstOccurrence(b)
                              /\ a.original_index < b.original_index
                     /\ (~Matched(a) /\ ~Matched(b)) =>
                           a.original_index < b.original_index

(***************************************************************************)
(* C11  Repeated priority names                                            *)
(***************************************************************************)
\* the priority list without the later repetitions of a name, names
\* compared after normalisation
Coalesced(prio) ==
    SelectSeq([m \in DOMAIN prio |-> [name |-> prio[m], at |-> m]],
              LAMBDA e : ~(\E o \in 1..(e.at - 1) :
                              _normalize_source_key(prio[o])
                                  = _normalize_source_key(e.name)))

CoalescedNames(prio) == [m \in DOMAIN Coalesced(prio) |-> Coalesced(prio)[m].name]

NoBlankEntry(prio) == \A m \in DOMAIN prio : _normalize_source_key(prio[m]) # <<>>

\* C11: for a priority list of non-blank names, the resolved order of the
\* sources is the order resolved with the list from which every later
\* repetition of a name has been removed.
C11_RepeatedNamesCoalesced ==
    (Resolved /\ NoBlankEntry(priority)) =>
        ordered_sources = _resolve_priority_order(prepared_sources, CoalescedNames(priority))

(***************************************************************************)
(* C12  Priority names that match no source                                *)
(***************************************************************************)
\* the non-blank priority entries that match, even after normalisation, the
\* display name of none of the prepared sources
UnknownEntries ==
    {m \in DOMAIN priority :
        /\ _normalize_source_key(priority[m]) # <<>>
        /\ \A k \in DOMAIN prepared_sources :
              _normalize_source_key(prepared_sources[k].source_name)
                  # _normalize_source_key(priority[m])}

\* C12: a call whose priority list holds a name matching none of the
\* supplied sources stops at the resolution of the order: it joins nothing
\* and returns nothing.
C12_UnknownPriorityNameFatal ==
    Resolved => UnknownEntries = {}

(***************************************************************************)
(* C13  The discrepancy flag                                               *)
(***************************************************************************)
Flagged == pc \in {"exceptions", "returned"}

\* a value with its text trimmed
Trimmed(v) == IF v.t = "str" THEN VStr(Strip(v.s)) ELSE v

\* the tape's own value of row i for field c and the raw value of every
\* source for the row's identifier, trimmed, blanks left out
Collected(i, c) ==
    LET id == NormId(loan_master_df, i)
        raw == {TapeValue(i, c)}
                 \cup {HeldBy(hoa_sources[k], id, c) :
                          k \in {j \in DOMAIN hoa_sources : c \in hoa_sources[j].columns}}
    IN  {Trimmed(v) : v \in {w \in raw : w # NoRow /\ ~BlankValue(w)}}

\* two values are the same number or the same text
SameValue(a, b) ==
    \/ a.t = "str" /\ b.t = "str" /\ a.s = b.s
    \/ a.t \in {"int", "float"} /\ b.t \in {"int", "float"} /\ a.n = b.n

Discrepant(i) ==
    \E c \in ValueColumns : \E a, b \in Collected(i, c) : ~SameValue(a, b)

\* C13: the discrepancy flag of a merged row is true exactly when, for some
\* enrichment field, the tape's own value and the sources' raw values for
\* the row's identifier, trimmed and without the blanks, hold two or more
\* distinct values.
C13_DiscrepancyDefinition ==
    Flagged =>
        \A i \in DOMAIN merged_df :
            merged_df[i]["hoa_discrepancy_flag"] = VBool(Discrepant(i))

\* a returned merge where the tape's own amount is the only value that
\* differs (both sources report 150 against the tape's 100) and the row is
\* flagged
C13_Witness ==
    /\ pc = "returned"
    /\ Len(hoa_sources) = 2
    /\ \E i \in DOMAIN merged_df :
          /\ Collected(i, "hoa_monthly_dues_amount") = {VFloat(100), VFloat(150)}
          /\ \A k \in DOMAIN hoa_sources :
                HeldBy(hoa_sources[k], merged_df[i]["loan_id"],
                       "hoa_monthly_dues_amount") = VFloat(150)
          /\ merged_df[i]["hoa_discrepancy_flag"] = VBool(TRUE)

\* a returned merge where the sources write one text differently ("Y " and
\* " Y") and the row is not flagged
C13_WitnessTrimmed ==
    /\ pc = "returned"
    /\ \E i \in DOMAIN merged_df :
          /\ \E k, l \in DOMAIN hoa_sources :
                /\ HeldBy(hoa_sources[k], merged_df[i]["loan_id"],
                          "hoa_monthly_dues_amount") = VStr(Txt_Yr)
                /\ HeldBy(hoa_sources[l], merged_df[i]["loan_id"],
                          "hoa_monthly_dues_amount") = VStr(Txt_Yl)
          /\ merged_df[i]["hoa_discrepancy_flag"] = VBool(FALSE)

(***************************************************************************)
(* C14  The discrepancy example                                            *)
(***************************************************************************)
\* what the source named name holds for row i in the amount field
AmountOf(name, i) ==
    LET named == {k \in DOMAIN prepared_sources : prepared_sources[k].source_name = name}
    IN  IF named = {} THEN NoRow
        ELSE HeldBy(hoa_sources[CHOOSE k \in named : TRUE],
                    merged_df[i]["loan_id"], "hoa_monthly_dues_amount")

\* C14: a row whose own amount on the tape is 100 while sources A and B
\* both report 150 is not flagged, and a row for which A reports 125 and B
\* reports 150 is flagged.
C14_DiscrepancyExample ==
    Flagged =>
        \A i \in DOMAIN merged_df :
            /\ (/\ TapeValue(i, "hoa_monthly_dues_amount") = VFloat(100)
                /\ AmountOf(Txt_A, i) = VFloat(150)
                /\ AmountOf(Txt_B, i) = VFloat(150)) =>
                  merged_df[i]["hoa_discrepancy_flag"] = VBool(FALSE)
            /\ (/\ AmountOf(Txt_A, i) = VFloat(125)
                /\ AmountOf(Txt_B, i) = VFloat(150)) =>
                  merged_df[i]["hoa_discrepancy_flag"] = VBool(TRUE)

\* C14 as amended: the tape's own value is one of the compared values, so a
\* row whose own amount is 100 while A and B both report 150 is flagged; a
\* row with no amount of its own for which A and B both report 150 is not
\* flagged; a row for which A reports 125 and B reports 150 is flagged.
C14_DiscrepancyExampleAmended ==
    Flagged =>
        \A i \in DOMAIN merged_df :
            /\ (/\ TapeValue(i, "hoa_monthly_dues_amount") = VFloat(100)
                /\ AmountOf(Txt_A, i) = VFloat(150)
                /\ AmountOf(Txt_B, i) = VFloat(150)) =>
                  merged_df[i]["hoa_discrepancy_flag"] = VBool(TRUE)
            /\ (/\ BlankValue(TapeValue(i, "hoa_monthly_dues_amount"))
                /\ AmountOf(Txt_A, i) = VFloat(150)
                /\ AmountOf(Txt_B, i) = VFloat(150)) =>
                  merged_df[i]["hoa_discrepancy_flag"] = VBool(FALSE)
            /\ (/\ AmountOf(Txt_A, i) = VFloat(125)
                /\ AmountOf(Txt_B, i) = VFloat(150)) =>
                  merged_df[i]["hoa_discrepancy_flag"] = VBool(TRUE)

\* the call of the example has returned: the tape holds 100, A and B hold
\* 150, A's amount was selected, and the row is flagged
C14_Witness ==
    /\ pc = "returned"
    /\ priority = <<Txt_A, Txt_B>>
    /\ Len(merged_df) = 1
    /\ TapeValue(1, "hoa_monthly_dues_amount") = VFloat(100)
    /\ AmountOf(Txt_A, 1) = VFloat(150)
    /\ AmountOf(Txt_B, 1) = VFloat(150)
    /\ merged_df[1]["hoa_monthly_dues_amount"] = VFloat(150)
    /\ merged_df[1]["hoa_discrepancy_flag"] = VBool(TRUE)

\* the unflagged case of the example has returned as well
C14_WitnessUnflagged ==
    /\ pc = "returned"
    /\ Len(merged_df) = 1
    /\ BlankValue(TapeValue(1, "hoa_monthly_dues_amount"))
    /\ AmountOf(Txt_A, 1) = VFloat(150)
    /\ AmountOf(Txt_B, 1) = VFloat(150)
    /\ merged_df[1]["hoa_discrepancy_flag"] = VBool(FALSE)

(***************************************************************************)
(* C15  Detection does not depend on the resolution                        *)
(***************************************************************************)
\* the priority lists the same call is compared under: none, each of A and
\* B alone, and both in either order
OtherPriorities ==
    {<<>>, <<Txt_A>>, <<Txt_B>>, <<Txt_A, Txt_B>>, <<Txt_B, Txt_A>>}

\* the joined frame of the same tape and sources under the priority list p
WorkUnder(p) == JoinAll(base_rows, _resolve_priority_order(prepared_sources, p))

\* the flags and the selected amounts the call gives under the priority list p
FlagsUnder(p) ==
    [i \in DOMAIN base_rows |-> VBool(DiscrepancyFlag(WorkUnder(p)[i], base_rows[i]))]

AmountsUnder(p) ==
    [i \in DOMAIN base_rows |->
        SelectValue(WorkUnder(p)[i], base_rows[i], "hoa_monthly_dues_amount").value]

\* C15: for the tape and the sources of a returned call, the discrepancy
\* flag of every row is the one the call gives under every other priority
\* list, whichever value the waterfall selects under it.
C15_DetectionIndependentOfPriority ==
    pc = "returned" =>
        \A p \in OtherPriorities :
            FlagsUnder(p) = [i \in DOMAIN merged_df |-> merged_df[i]["hoa_discrepancy_flag"]]

\* a returned call that selected A's 125 and flags the row, where the
\* reversed priority list selects B's 150
C15_Witness ==
    /\ pc = "returned"
    /\ priority = <<Txt_A, Txt_B>>
    /\ Len(merged_df) = 1
    /\ merged_df[1]["hoa_monthly_dues_amount"] = VFloat(125)
    /\ merged_df[1]["hoa_discrepancy_flag"] = VBool(TRUE)
    /\ AmountsUnder(<<Txt_B, Txt_A>>) = <<VFloat(150)>>

(***************************************************************************)
(* C16  The exception sets                                                 *)
(***************************************************************************)
\* the normalised identifiers of a raw frame
IdsOf(df) == {NormId(df, i).s : i \in DOMAIN df.rows \ AbsentRows(df)}

\* entry holds the exception sets of the raw source frame df
EntryFor(entry, df) ==
    /\ Range(entry.missing_in_vendor) = IdsOf(loan_master_df) \ IdsOf(df)
    /\ Range(entry.extra_in_vendor) = IdsOf(df) \ IdsOf(loan_master_df)
    /\ Increasing(entry.missing_in_vendor)
    /\ Increasing(entry.extra_in_vendor)
    /\ entry.missing_in_vendor_count = Len(entry.missing_in_vendor)
    /\ entry.extra_in_vendor_count = Len(entry.extra_in_vendor)
    /\ IdsOf(df) = IdsOf(loan_master_df) =>
          entry.missing_in_vendor = <<>> /\ entry.extra_in_vendor = <<>>

C16_WitnessSameIds ==
    /\ pc = "returned"
    /\ Len(vendor_exceptions) = Len(ordered_sources)
    /\ \E k \in Ranks :
          /\ IdsOf(loan_master_df) # {}
          /\ IdsOf(RankedFrame(k)) = IdsOf(loan_master_df)
          /\ vendor_exceptions[k + 1].entry.missing_in_vendor_count = 0
          /\ vendor_exceptions[k + 1].entry.extra_in_vendor_count = 0

(***************************************************************************)
(* C17  The keys of the exception map                                      *)
(***************************************************************************)
\* C17: the returned exception map has exactly one entry per source, under
\* keys that differ from each other, and each entry holds the exception
\* sets of its own source.
C17_OneEntryPerSource ==
    pc = "returned" =>
        /\ Len(vendor_exceptions) = Len(hoa_sources)
        /\ \A e, f \in DOMAIN vendor_exceptions :
              e # f => vendor_exceptions[e].key # vendor_exceptions[f].key
        /\ \A k \in DOMAIN vendor_exceptions :
              EntryFor(vendor_exceptions[k].entry, RankedFrame(k - 1))

(***************************************************************************)
(* C18  Provenance                                                         *)
(***************************************************************************)
Attributed == pc \in {"discrepancy", "exceptions", "returned"}

\* the ranks of the sources that supplied the selected value of a field of
\* the row with identifier id
Contributors(id) ==
    {k \in Ranks : \E c \in ValueColumns :
        SomeProvider(id, c) /\ FirstProvider(id, c) = k}

\* v when it is not blank, else the declared value
OrDeclared(v, declared) == IF v # NoRow /\ ~BlankValue(v) THEN v ELSE declared

\* the merged cell is the expected value, or blank when none is expected
Carries(cell, expected) ==
    IF BlankValue(expected) THEN BlankValue(cell) ELSE cell = expected

\* C18: the provenance of a merged row is that of the first source, by
\* rank, that supplied the selected value of one of its fields: the name
\* and the file of the source's own row when they are not blank, the name
\* and the file the source declares otherwise; and the tape's own
\* provenance when, and only when, no source supplied any field.
C18_ProvenanceResolution ==
    Attributed =>
        \A i \in DOMAIN merged_df :
            LET id == merged_df[i]["loan_id"]
                from == Contributors(id)
            IN  IF from = {}
                THEN /\ Carries(merged_df[i]["hoa_source_used"], TapeValue(i, "hoa_source"))
                     /\ Carries(merged_df[i]["hoa_source_file_used"],
                                TapeValue(i, "hoa_source_file"))
                ELSE LET k == CHOOSE k \in from : \A j \in from : k <= j
                         source == ordered_sources[k + 1]
                     IN  /\ Carries(merged_df[i]["hoa_source_used"],
                                    OrDeclared(HeldBy(RankedFrame(k), id, "hoa_source"),
                                               VStr(source.source_name)))
                         /\ Carries(merged_df[i]["hoa_source_file_used"],
                                    OrDeclared(HeldBy(RankedFrame(k), id, "hoa_source_file"),
                                               source.source_file))

(***************************************************************************)
(* Calls of normalize_loan_id on its own                                   *)
(***************************************************************************)
\* the characters the explored identifiers are written with
IdAlphabet == {"1", "0", ".", "a", "Z", " ", "-", "_"}

MaxIdLen == 3

Txt_1001 == <<"1", "0", "0", "1">>

\* the written forms of the tests and of the specification
NamedForms ==
    {VStr(Txt_1001 \o <<".", "0">>), VStr(<<" ">> \o Txt_1001 \o <<" ">>), VStr(Txt_1001),
     VStr(<<" ", " ", "a", "b", "-", "1", "2", ".", "0", " ", " ">>),
     VStr(<<"a", " ", "b", "_", "c">>), VStr(<<"*", "*", "*">>),
     VStr(<<"1", ".", "0", ".", "0">>), VStr(<<"1", ".", "0", "\n">>)}

NormalizeInputs ==
    {VNone, VNaN}
        \cup {VInt(n) : n \in {0, 10, 1000, 1001}}
        \cup {VFloat(n) : n \in {0, 1000, 1001, 12345}}
        \cup NamedForms
        \cup UNION {{VStr(s) : s \in [1..n -> IdAlphabet]} : n \in 0..MaxIdLen}

\* no call of merge_hoa_sources is under way
MergeIdle ==
    /\ loan_master_df = Frame({}, <<>>)
    /\ hoa_sources = <<>>
    /\ priority = <<>>
    /\ pc = "idle"
    /\ merged_df = <<>>
    /\ base_rows = <<>>
    /\ prepared_sources = <<>>
    /\ ordered_sources = <<>>
    /\ work_df = <<>>
    /\ selected_rank = <<>>
    /\ vendor_exceptions = <<>>
    /\ raised = NoError

NormalizeInit ==
    /\ MergeIdle
    /\ QaIdle
    /\ DupIdle
    /\ FillIdle
    /\ SqlIdle
    /\ FieldIdle
    /\ x \in NormalizeInputs
    /\ npc = "call"
    /\ normalized = VNone
    /\ renormalized = VNone

\* normalize_loan_id(x)
Normalize ==
    /\ npc = "call"
    /\ normalized' = normalize_loan_id(x)
    /\ npc' = "returned"
    /\ UNCHANGED <<x, renormalized, beside_normalize>>

\* normalize_loan_id(s) of an identifier s that a call returned
NormalizeReturned ==
    /\ npc = "returned"
    /\ normalized.t = "str"
    /\ renormalized' = normalize_loan_id(normalized)
    /\ npc' = "renormalized"
    /\ UNCHANGED <<x, normalized, beside_normalize>>

NormalizeNext == Normalize \/ NormalizeReturned

NormalizeSpec == NormalizeInit /\ [][NormalizeNext]_vars

(***************************************************************************)
(* C19  Normalisation is idempotent                                        *)
(***************************************************************************)
\* the written forms of the identifier 1001
FormsOf1001 ==
    {VStr(Txt_1001 \o <<".", "0">>), VStr(<<" ">> \o Txt_1001 \o <<" ">>), VStr(Txt_1001),
     VFloat(1001), VInt(1001)}

\* C19: an identifier that normalize_loan_id returned is returned unchanged
\* when normalised in turn, and "1001.0", " 1001 ", "1001" and the float
\* 1001.0 all give the key "1001".
C19_NormalizationIdempotent ==
    /\ npc = "renormalized" => renormalized = normalized
    /\ (npc = "returned" /\ x \in FormsOf1001) => normalized = VStr(Txt_1001)

\* the float 1001.0 was normalised to "1001", and "1001" to itself
C19_Witness ==
    /\ npc = "renormalized"
    /\ x = VFloat(1001)
    /\ normalized = VStr(Txt_1001)
    /\ renormalized = VStr(Txt_1001)

\* an identifier made of a text with inner punctuation and a trailing ".0"
\* was normalised in turn
C19_WitnessText ==
    /\ npc = "renormalized"
    /\ x = VStr(<<" ", " ", "a", "b", "-", "1", "2", ".", "0", " ", " ">>)
    /\ renormalized = VStr(<<"A", "B", "1", "2">>)

(***************************************************************************)
(* C20  The rules of normalisation                                         *)
(***************************************************************************)
\* the positions of the text t that hold no whitespace
Inked(t) == {j \in DOMAIN t : t[j] \notin Whitespace}

First(S) == CHOOSE j \in S : \A k \in S : j <= k

Last(S) == CHOOSE j \in S : \A k \in S : k <= j

AlnumSet == DigitSet \cup UpperSet \cup LowerSet

\* the key the rules give for the text t: between the first and the last
\* position that is not whitespace, less a final ".0", the letters and
\* digits in order, letters in upper case
RuleKey(t) ==
    IF Inked(t) = {} THEN <<>>
    ELSE LET lo == First(Inked(t))
             hi == Last(Inked(t))
             end == IF hi - lo >= 1 /\ t[hi - 1] = "." /\ t[hi] = "0" THEN hi - 2 ELSE hi
             kept == SelectSeq(SubSeq(t, lo, end), LAMBDA c : c \in AlnumSet)
         IN  [j \in DOMAIN kept |->
                 IF kept[j] \in LowerSet
                 THEN UPPER[CHOOSE k \in DOMAIN LOWER : LOWER[k] = kept[j]]
                 ELSE kept[j]]

\* C20: every call returns, and returns Absent for null, NaN and every
\* text without a letter or digit, else the non-empty text of A-Z and 0-9
\* that the rules give: the input's text trimmed, less one trailing ".0",
\* without the characters that are not ASCII letters or digits, in upper
\* case.
C20_NormalizationRules ==
    /\ npc \in {"call", "returned", "renormalized"}
    /\ npc # "call" =>
          /\ IsNA(x) => normalized = VNone
          /\ ~IsNA(x) =>
                /\ RuleKey(PyStr(x)) = <<>> => normalized = VNone
                /\ RuleKey(PyStr(x)) # <<>> => normalized = VStr(RuleKey(PyStr(x)))
          /\ (\A j \in DOMAIN PyStr(x) : PyStr(x)[j] \notin AlnumSet) => normalized = VNone
          /\ normalized # VNone =>
                /\ normalized.t = "str"
                /\ normalized.s # <<>>
                /\ \A j \in DOMAIN normalized.s : normalized.s[j] \in DigitSet \cup UpperSet

\* "a b_c" returned "ABC"
C20_Witness ==
    /\ npc = "returned"
    /\ x = VStr(<<"a", " ", "b", "_", "c">>)
    /\ normalized = VStr(<<"A", "B", "C">>)

\* a text of punctuation only returned Absent
C20_WitnessAbsent ==
    /\ npc = "returned"
    /\ x = VStr(<<"*", "*", "*">>)
    /\ normalized = VNone

(***************************************************************************)
(* C28  Name and file of the provenance have one origin                    *)
(***************************************************************************)
\* the name and the file the merged row i carries are those of the source
\* of rank k: its row's own where not blank, the declared ones otherwise
FromSource(i, k) ==
    LET id == merged_df[i]["loan_id"]
        source == ordered_sources[k + 1]
    IN  /\ Carries(merged_df[i]["hoa_source_used"],
                   OrDeclared(HeldBy(RankedFrame(k), id, "hoa_source"),
                              VStr(source.source_name)))
        /\ Carries(merged_df[i]["hoa_source_file_used"],
                   OrDeclared(HeldBy(RankedFrame(k), id, "hoa_source_file"),
                              source.source_file))

\* the name and the file the merged row i carries are the tape's own
FromTape(i) ==
    /\ Carries(merged_df[i]["hoa_source_used"], TapeValue(i, "hoa_source"))
    /\ Carries(merged_df[i]["hoa_source_file_used"], TapeValue(i, "hoa_source_file"))

\* C28: on every merged row the source name and the source file used have
\* one origin: both are those of the first contributing source, or both
\* are the tape's own.
C28_ProvenancePaired ==
    Attributed =>
        \A i \in DOMAIN merged_df :
            LET from == Contributors(merged_df[i]["loan_id"])
            IN  \/ FromTape(i)
                \/ /\ from # {}
                   /\ FromSource(i, CHOOSE k \in from : \A j \in from : k <= j)

(***************************************************************************)
(* hoa_report/qa/metrics.py                                                *)
(***************************************************************************)
\* a pandas DataFrame handed to compute_qa (None is VNone)
DataFrame(columns, rows) == [t |-> "DataFrame", columns |-> columns, rows |-> rows]

\* a list of objects
PyList(items) == [t |-> "list", items |-> items]

\* metrics._is_blank
metrics_is_blank(value) ==
    IF value.t = "None" THEN TRUE
    ELSE IF value.t = "str" THEN Strip(value.s) = <<>>
    ELSE IF value.t = "nan" THEN TRUE
    ELSE FALSE

_safe_frame_rows(df) == IF df.t = "None" THEN 0 ELSE Len(df.rows)

\* the Series of normalized identifiers, empty without the frame or column
_normalized_ids(df, loan_id_column) ==
    IF df.t = "None" THEN <<>>
    ELSE IF loan_id_column \notin df.columns THEN <<>>
    ELSE [i \in DOMAIN df.rows |-> normalize_loan_id(df.rows[i][loan_id_column])]

\* Series.dropna()
DropNA(series) == SelectSeq(series, LAMBDA v : ~IsNA(v))

\* set(series.tolist())
ToSet(series) == {series[i] : i \in DOMAIN series}

\* Series.nunique()
NUnique(series) == Cardinality(ToSet(DropNA(series)))

_coerce_vendor_frames(vendor) ==
    IF vendor.t = "None" THEN <<>>
    ELSE IF vendor.t = "DataFrame" THEN <<vendor>>
    ELSE IF vendor.t = "list" THEN SelectSeq(vendor.items, LAMBDA frame : frame.t = "DataFrame")
    ELSE <<>>

LOAN_ID_COLUMN == "loan_id"

HOA_VALUE_COLUMN == "hoa_monthly_dues_amount"

\* lines 68: tape_df if tape_df is not None else merged_df
EffectiveTape(tape, merged) == IF tape.t # "None" THEN tape ELSE merged

\* variant: only the first vendor frame's identifiers are taken
VendorIdsFirstFrame(vendor_frames) ==
    IF vendor_frames = <<>> THEN {}
    ELSE ToSet(DropNA(_normalized_ids(vendor_frames[1], LOAN_ID_COLUMN)))

\* lines 76-81: the union of the vendor frames' identifier sets
VendorIds(vendor_frames) ==
    UNION {ToSet(DropNA(_normalized_ids(vendor_frames[k], LOAN_ID_COLUMN))) :
               k \in DOMAIN vendor_frames}

RECURSIVE SumRows(_)
SumRows(frames) ==
    IF frames = <<>> THEN 0 ELSE Len(frames[1].rows) + SumRows(Tail(frames))

\* variant: every merged row with a value counts, whatever its identifier
CountMatchedRows(id_set, vendor, merged) ==
    IF vendor # {} THEN Cardinality(id_set \cap vendor)
    ELSE IF merged.t # "None" /\ LOAN_ID_COLUMN \in merged.columns
                              /\ HOA_VALUE_COLUMN \in merged.columns
    THEN Cardinality({i \in DOMAIN merged.rows :
                          ~metrics_is_blank(merged.rows[i][HOA_VALUE_COLUMN])})
    ELSE 0

\* lines 86-93
CountMatched(id_set, vendor, merged) ==
    IF vendor # {} THEN Cardinality(id_set \cap vendor)
    ELSE IF merged.t # "None" /\ LOAN_ID_COLUMN \in merged.columns
                              /\ HOA_VALUE_COLUMN \in merged.columns
    THEN LET merged_ids == _normalized_ids(merged, LOAN_ID_COLUMN)
             has_hoa_value ==
                 [i \in DOMAIN merged.rows |->
                     ~metrics_is_blank(merged.rows[i][HOA_VALUE_COLUMN])]
             kept == {i \in DOMAIN merged_ids : has_hoa_value[i]}
         IN  Cardinality({merged_ids[i] : i \in kept} \ {VNone})
    ELSE 0

\* lines 95-100
MissingHoaValues(merged, unique, count) ==
    IF merged.t # "None" /\ HOA_VALUE_COLUMN \in merged.columns
    THEN Cardinality({i \in DOMAIN merged.rows :
                          metrics_is_blank(merged.rows[i][HOA_VALUE_COLUMN])})
    ELSE IF unique # 0 THEN (IF unique - count > 0 THEN unique - count ELSE 0)
    ELSE 0

RECURSIVE GCD(_, _)
GCD(a, b) == IF b = 0 THEN a ELSE GCD(b, a % b)

\* a / b of two ints as the fraction in lowest terms
TrueDiv(a, b) == [num |-> a \div GCD(a, b), den |-> b \div GCD(a, b)]

\* the float 0.0
ZERO == [num |-> 0, den |-> 1]

\* line 102
MatchRate(count, unique) == IF unique # 0 THEN TrueDiv(count, unique) ELSE ZERO

(***************************************************************************)
(* One call of compute_qa, block by block                                  *)
(***************************************************************************)
MaxQaRows == 2

MaxQaFrames == 2

Txt_150 == <<"1", "5", "0">>

QaIds == {VNone, VStr(Txt_L1), VStr(Txt_l1), VStr(Txt_L2)}

QaValues == {VNone, VStr(Txt_150), VStr(Txt_Space)}

IdRow(loan_id) == [c \in {LOAN_ID_COLUMN} |-> loan_id]

IdFrame(ids) == DataFrame({LOAN_ID_COLUMN}, [i \in DOMAIN ids |-> IdRow(ids[i])])

IdFrames == {IdFrame(ids) : ids \in UNION {[1..n -> QaIds] : n \in 0..MaxQaRows}}

\* a frame without the identifier column
NoIdFrame ==
    DataFrame({HOA_VALUE_COLUMN}, <<[c \in {HOA_VALUE_COLUMN} |-> VStr(Txt_150)]>>)

QaTapes == {VNone, NoIdFrame} \cup IdFrames

ListItems ==
    {VNone, NoIdFrame, IdFrame(<<>>), IdFrame(<<VStr(Txt_L1)>>),
     IdFrame(<<VStr(Txt_L2), VNone>>)}

QaVendors ==
    {VNone, VInt(3)} \cup IdFrames
        \cup {PyList(items) : items \in UNION {[1..n -> ListItems] : n \in 0..MaxQaFrames}}

MergedRow(loan_id, value) ==
    [c \in {LOAN_ID_COLUMN, HOA_VALUE_COLUMN} |-> IF c = LOAN_ID_COLUMN THEN loan_id ELSE value]

MergedRows == {MergedRow(id, v) : id \in QaIds, v \in QaValues}

MergedFrames ==
    {DataFrame({LOAN_ID_COLUMN, HOA_VALUE_COLUMN}, rows) :
        rows \in UNION {[1..n -> MergedRows] : n \in 0..MaxQaRows}}

\* the merged frame of the test with full inputs, on two identifiers
FullMerged ==
    DataFrame({LOAN_ID_COLUMN, HOA_VALUE_COLUMN},
              <<MergedRow(VStr(Txt_L1), VStr(Txt_150)), MergedRow(VStr(Txt_L1), VNone),
                MergedRow(VStr(Txt_L2), VNone)>>)

\* vendor arguments that hold no valid identifier
EmptyVendors == {VNone, IdFrame(<<VNone>>), PyList(<<VNone>>)}

QaInputs ==
    \/ /\ tape_df \in QaTapes
       /\ vendor_df \in QaVendors
       /\ qa_merged_df \in {VNone, FullMerged}
       /\ tape_raw_rows = VNone
    \/ /\ tape_df \in {VNone, IdFrame(<<VStr(Txt_L1)>>),
                       IdFrame(<<VStr(Txt_L1), VStr(Txt_l1), VNone>>)}
       /\ vendor_df \in EmptyVendors
       /\ qa_merged_df \in {VNone, NoIdFrame, IdFrame(<<VStr(Txt_L1)>>)} \cup MergedFrames
       /\ tape_raw_rows \in {VNone, VInt(6)}

QaInit ==
    /\ MergeIdle
    /\ DupIdle
    /\ FillIdle
    /\ NormalizeIdle
    /\ SqlIdle
    /\ FieldIdle
    /\ QaInputs
    /\ qpc = "tape"
    /\ tape_rows = 0
    /\ tape_unique = 0
    /\ tape_dupes = 0
    /\ tape_id_set = {}
    /\ vendor_rows = 0
    /\ vendor_ids = {}
    /\ matched = 0
    /\ qa_dict = <<>>

\* lines 68-73 and 84
CountTape ==
    /\ qpc = "tape"
    /\ LET effective_tape_df == EffectiveTape(tape_df, qa_merged_df)
           tape_non_blank_ids == DropNA(_normalized_ids(effective_tape_df, LOAN_ID_COLUMN))
       IN  /\ tape_rows' = _safe_frame_rows(effective_tape_df)
           /\ tape_unique' = NUnique(tape_non_blank_ids)
           /\ tape_dupes' = Len(tape_non_blank_ids) - NUnique(tape_non_blank_ids)
           /\ tape_id_set' = ToSet(tape_non_blank_ids)
    /\ qpc' = "vendor"
    /\ UNCHANGED <<beside_qa, qa_args, vendor_rows, vendor_ids, matched,
                   qa_dict>>

\* lines 75-82
CountVendors ==
    /\ qpc = "vendor"
    /\ LET vendor_frames == _coerce_vendor_frames(vendor_df)
       IN  /\ vendor_rows' = SumRows(vendor_frames)
           /\ vendor_ids' = VendorIds(vendor_frames)
    /\ qpc' = "match"
    /\ UNCHANGED <<beside_qa, qa_args, tape_rows, tape_unique, tape_dupes,
                   tape_id_set, matched, qa_dict>>

\* lines 86-93
CountMatches ==
    /\ qpc = "match"
    /\ matched' = CountMatched(tape_id_set, vendor_ids, qa_merged_df)
    /\ qpc' = "summary"
    /\ UNCHANGED <<beside_qa, qa_args, tape_rows, tape_unique, tape_dupes,
                   tape_id_set, vendor_rows, vendor_ids, qa_dict>>

\* lines 95-114
Summarize ==
    /\ qpc = "summary"
    /\ qa_dict' =
           [tape_rows |-> tape_rows,
            tape_rows_raw |-> IF tape_raw_rows.t # "None" THEN tape_raw_rows.n ELSE tape_rows,
            tape_rows_unique |-> tape_unique,
            tape_rows_dupes |-> tape_dupes,
            vendor_rows |-> vendor_rows,
            vendor_rows_unique |-> Cardinality(vendor_ids),
            matched |-> matched,
            match_rate |-> MatchRate(matched, tape_unique),
            missing_hoa_values_count |-> MissingHoaValues(qa_merged_df, tape_unique, matched)]
    /\ qpc' = "done"
    /\ UNCHANGED <<beside_qa, qa_args, tape_rows, tape_unique, tape_dupes,
                   tape_id_set, vendor_rows, vendor_ids, matched>>

QaNext == CountTape \/ CountVendors \/ CountMatches \/ Summarize

QaSpec == QaInit /\ [][QaNext]_vars

(***************************************************************************)
(* C21, C22, C29  The match metrics of compute_qa                          *)
(***************************************************************************)
QaDone == qpc = "done"

\* the distinct valid identifiers a frame holds
ValidIds(df) ==
    IF df.t # "DataFrame" THEN {}
    ELSE IF "loan_id" \notin df.columns THEN {}
    ELSE {normalize_loan_id(df.rows[i]["loan_id"]) : i \in DOMAIN df.rows} \ {VNone}

\* the tape of the call: tape_df, or the merged dataset in its absence
TheTape == IF tape_df.t = "None" THEN qa_merged_df ELSE tape_df

\* the vendor frames supplied
VendorFrames ==
    IF vendor_df.t = "DataFrame" THEN {vendor_df}
    ELSE IF vendor_df.t = "list"
    THEN {vendor_df.items[k] : k \in DOMAIN vendor_df.items}
    ELSE {}

VendorValidIds == UNION {ValidIds(f) : f \in VendorFrames}

\* C21: when the vendor frames hold at least one valid identifier, matched
\* is the number of distinct normalized identifiers present both in the tape
\* and in the union of the vendor frames' identifiers, and match_rate is
\* matched divided by the number of distinct valid tape identifiers; when
\* the tape has no valid identifier, match_rate is 0.0.
C21_MatchMetrics ==
    QaDone =>
        LET tape == ValidIds(TheTape)
            rate == qa_dict.match_rate
        IN  /\ VendorValidIds # {} =>
                   /\ qa_dict.matched = Cardinality(tape \cap VendorValidIds)
                   /\ tape # {} =>
                          /\ rate.den > 0
                          /\ rate.num * Cardinality(tape) = qa_dict.matched * rate.den
            /\ tape = {} => rate = ZERO

\* two vendor frames in a list, one of the tape's two identifiers matched
C21_Witness ==
    /\ QaDone
    /\ vendor_df.t = "list"
    /\ Cardinality(VendorFrames) = 2
    /\ qa_dict.matched = 1
    /\ qa_dict.tape_rows_unique = 2
    /\ qa_dict.match_rate = [num |-> 1, den |-> 2]

\* vendors with valid identifiers against a tape with none
C21_WitnessNoTapeId ==
    /\ QaDone
    /\ VendorValidIds # {}
    /\ TheTape.t = "DataFrame"
    /\ Len(TheTape.rows) > 0
    /\ ValidIds(TheTape) = {}
    /\ qa_dict.match_rate = ZERO

\* the merged rows that have a non-blank target field value
ValuedRows ==
    IF qa_merged_df.t # "DataFrame" THEN {}
    ELSE IF "hoa_monthly_dues_amount" \notin qa_merged_df.columns THEN {}
    ELSE {i \in DOMAIN qa_merged_df.rows :
              ~BlankValue(qa_merged_df.rows[i]["hoa_monthly_dues_amount"])}

\* no vendor identifier set is available and a merged dataset is supplied
FallbackCase == QaDone /\ VendorValidIds = {} /\ qa_merged_df.t = "DataFrame"

\* the normalized identifier of a merged row, None without the column
MergedId(i) ==
    IF "loan_id" \in qa_merged_df.columns
    THEN normalize_loan_id(qa_merged_df.rows[i]["loan_id"])
    ELSE VNone

\* C22 as stated: when the vendor identifier sets are unavailable and a
\* merged dataset is supplied, matched is the number of merged rows that
\* have a non-blank target field value.
C22_MatchedCountsRows ==
    FallbackCase => qa_dict.matched = Cardinality(ValuedRows)

\* C22 amended: when the vendor identifier sets are unavailable and a merged
\* dataset is supplied, matched is the number of distinct non-absent
\* normalized identifiers among the merged rows that have a non-blank
\* target field value.
C22_MatchedCountsIds ==
    FallbackCase => qa_dict.matched = Cardinality({MergedId(i) : i \in ValuedRows} \ {VNone})

\* two valued rows written differently under one identifier count once
C22_Witness ==
    /\ FallbackCase
    /\ Cardinality(ValuedRows) = 2
    /\ qa_dict.matched = 1
    /\ \A i \in ValuedRows : MergedId(i) # VNone

\* a valued row without an identifier is not counted
C22_WitnessAbsentId ==
    /\ FallbackCase
    /\ Cardinality(ValuedRows) = 2
    /\ qa_dict.matched = 1
    /\ \E i \in ValuedRows : MergedId(i) = VNone

\* the tape rows with a non-absent identifier
IdentifiedTapeRows ==
    IF TheTape.t # "DataFrame" THEN {}
    ELSE IF "loan_id" \notin TheTape.columns THEN {}
    ELSE {i \in DOMAIN TheTape.rows : normalize_loan_id(TheTape.rows[i]["loan_id"]) # VNone}

\* C29: for every combination of tape_df, vendor_df and merged_df, matched
\* is at most tape_rows_unique, so match_rate never exceeds 1, and
\* tape_rows_unique + tape_rows_dupes is the number of tape rows with a
\* non-absent identifier.
C29_MatchBound ==
    QaDone =>
        /\ qa_dict.matched <= qa_dict.tape_rows_unique
        /\ qa_dict.match_rate.num <= qa_dict.match_rate.den
        /\ qa_dict.tape_rows_unique + qa_dict.tape_rows_dupes = Cardinality(IdentifiedTapeRows)

(***************************************************************************)
(* hoa_report/qa/loan_id.py: duplicate reporting                           *)
(***************************************************************************)
ID_COL == "loan_id"

\* Counter(values)[value]
Count(values, value) == Cardinality({i \in DOMAIN values : values[i] = value})

\* dict(record) with row["normalized_loan_id"] = normalized
Annotated(record, normalized_id) ==
    [k \in DOMAIN record \cup {"normalized_loan_id"} |->
        IF k = "normalized_loan_id" THEN normalized_id ELSE record[k]]

KeyError == [ok |-> FALSE, error |-> "KeyError", value |-> <<>>, summary |-> <<>>]

\* variant: a repeat counts only from its second occurrence on
DuplicateMaskKeepFirst(normalized_ids) ==
    [i \in DOMAIN normalized_ids |->
        /\ ~IsNA(normalized_ids[i])
        /\ \E j \in 1..(i - 1) : normalized_ids[j] = normalized_ids[i]]

\* normalized is not None and counts[normalized] > 1;
\* normalized_ids.notna() & normalized_ids.duplicated(keep=False)
DuplicateMask(normalized_ids) ==
    [i \in DOMAIN normalized_ids |->
        ~IsNA(normalized_ids[i]) /\ Count(normalized_ids, normalized_ids[i]) > 1]

RECURSIVE Kept(_, _)
\* the positions of a mask that hold TRUE, in order
Kept(mask, i) ==
    IF i > Len(mask) THEN <<>>
    ELSE (IF mask[i] THEN <<i>> ELSE <<>>) \o Kept(mask, i + 1)

\* lines 30-43
_find_duplicate_ids_records(records, id_col) ==
    IF \E i \in DOMAIN records : id_col \notin DOMAIN records[i] THEN KeyError
    ELSE LET normalized_ids == [i \in DOMAIN records |-> normalize_loan_id(records[i][id_col])]
             kept == Kept(DuplicateMask(normalized_ids), 1)
         IN  [ok |-> TRUE, error |-> "", summary |-> <<>>,
              value |-> PyList([k \in DOMAIN kept |->
                                   Annotated(records[kept[k]], normalized_ids[kept[k]])])]

\* lines 46-59
find_duplicate_ids(frame, id_col) ==
    IF frame.t = "list" THEN _find_duplicate_ids_records(frame.items, id_col)
    ELSE IF frame.t # "DataFrame" THEN KeyError
    ELSE IF id_col \notin frame.columns THEN KeyError
    ELSE LET normalized_ids == [i \in DOMAIN frame.rows |-> normalize_loan_id(frame.rows[i][id_col])]
             kept == Kept(DuplicateMask(normalized_ids), 1)
         IN  [ok |-> TRUE, error |-> "", summary |-> <<>>,
              value |-> DataFrame(frame.columns \cup {"normalized_loan_id"},
                                  [k \in DOMAIN kept |->
                                      Annotated(frame.rows[kept[k]], normalized_ids[kept[k]])])]

\* the rows of what find_duplicate_ids returned
RowsIn(rows) == IF rows.t = "list" THEN rows.items ELSE rows.rows

\* lines 66-77: the identifiers of the duplicate rows in sorted order, each
\* with the number of those rows
DuplicateSummary(rows) ==
    LET ids == [i \in DOMAIN rows |-> rows[i]["normalized_loan_id"].s]
        sorted == SortedStrs({ids[i] : i \in DOMAIN ids})
    IN  [k \in DOMAIN sorted |-> [loan_id |-> sorted[k], count |-> Count(ids, sorted[k])]]

(***************************************************************************)
(* One call of assert_unique_vendor_ids                                    *)
(***************************************************************************)
MaxRecords == 3

MaxFrameRows == 2

Txt_tape == <<"t", "a", "p", "e">>

\* a record with an identifier and the field "source"
Record(loan_id) ==
    [k \in {ID_COL, "source"} |-> IF k = ID_COL THEN loan_id ELSE VStr(Txt_tape)]

\* a record without the identifier field
NoIdRecord == [k \in {"source"} |-> VStr(Txt_tape)]

RecordChoices ==
    {NoIdRecord} \cup
        {Record(id) : id \in {VNone, VStr(Txt_L1), VStr(Txt_l1), VStr(Txt_L2), VStr(Txt_Stars)}}

DupInputs ==
    {PyList(items) : items \in UNION {[1..n -> RecordChoices] : n \in 0..MaxRecords}}
        \cup {DataFrame({ID_COL, "source"}, rows) :
                  rows \in UNION {[1..n -> RecordChoices \ {NoIdRecord}] :
                                     n \in 0..MaxFrameRows}}
        \cup {VNone, NoIdFrame}

DupInit ==
    /\ MergeIdle
    /\ NormalizeIdle
    /\ QaIdle
    /\ FillIdle
    /\ SqlIdle
    /\ FieldIdle
    /\ dup_df \in DupInputs
    /\ dpc = "find"
    /\ duplicate_rows = <<>>
    /\ outcome = <<>>

\* line 64: duplicate_rows = find_duplicate_ids(df, id_col), an exception
\* of which ends the call
FindDuplicateIds ==
    /\ dpc = "find"
    /\ LET r == find_duplicate_ids(dup_df, ID_COL)
       IN  IF r.ok
           THEN /\ duplicate_rows' = r.value
                /\ dpc' = "count"
                /\ UNCHANGED outcome
           ELSE /\ outcome' = r
                /\ dpc' = "done"
                /\ UNCHANGED duplicate_rows
    /\ UNCHANGED <<beside_dup, dup_df>>

\* lines 66-81
AssertUnique ==
    /\ dpc = "count"
    /\ outcome' =
           IF RowsIn(duplicate_rows) = <<>>
           THEN [ok |-> TRUE, error |-> "", value |-> VNone, summary |-> <<>>]
           ELSE [ok |-> FALSE, error |-> "ValueError", value |-> <<>>,
                 summary |-> DuplicateSummary(RowsIn(duplicate_rows))]
    /\ dpc' = "done"
    /\ UNCHANGED <<beside_dup, dup_df, duplicate_rows>>

DupNext == FindDuplicateIds \/ AssertUnique

DupSpec == DupInit /\ [][DupNext]_vars

(***************************************************************************)
(* C23  Duplicate reporting                                                *)
(***************************************************************************)
\* the call was given a list of records that all hold the identifier field
RecordsGiven ==
    /\ dup_df.t = "list"
    /\ \A i \in DOMAIN dup_df.items : "loan_id" \in DOMAIN dup_df.items[i]

RecordId(i) == normalize_loan_id(dup_df.items[i]["loan_id"])

\* the records whose normalized identifier is non-absent and shared by at
\* least two records
SharingRecords ==
    {i \in DOMAIN dup_df.items :
        /\ RecordId(i) # VNone
        /\ \E j \in DOMAIN dup_df.items : j # i /\ RecordId(j) = RecordId(i)}

\* the k-th smallest member of a set of positions
Nth(S, k) == CHOOSE i \in S : Cardinality({j \in S : j < i}) = k - 1

\* row is the record with its normalized identifier added
AnnotationOf(row, i) ==
    LET record == dup_df.items[i]
    IN  /\ DOMAIN row = DOMAIN record \cup {"normalized_loan_id"}
        /\ row["normalized_loan_id"] = RecordId(i)
        /\ \A k \in DOMAIN record : row[k] = record[k]

FoundDuplicates == dpc \in {"count", "done"} /\ (dpc = "done" => outcome.error # "KeyError")

\* C23: for every list of records, find_duplicate_ids returns exactly the
\* records whose normalized identifier is non-absent and shared by at least
\* two records, each annotated with that identifier, in input order, and
\* assert_unique_vendor_ids raises an error naming each duplicated
\* identifier with its row count if and only if that result is non-empty.
C23_DuplicateReporting ==
    RecordsGiven =>
        /\ dpc # "find" =>
               /\ FoundDuplicates
               /\ duplicate_rows.t = "list"
               /\ Len(duplicate_rows.items) = Cardinality(SharingRecords)
               /\ \A k \in DOMAIN duplicate_rows.items :
                      AnnotationOf(duplicate_rows.items[k], Nth(SharingRecords, k))
        /\ dpc = "done" =>
               /\ ~outcome.ok <=> duplicate_rows.items # <<>>
               /\ ~outcome.ok =>
                      /\ outcome.error = "ValueError"
                      /\ Len(outcome.summary)
                             = Cardinality({RecordId(i) : i \in SharingRecords})
                      /\ {outcome.summary[k] : k \in DOMAIN outcome.summary}
                             = {[loan_id |-> RecordId(i).s,
                                 count |-> Cardinality({j \in SharingRecords :
                                                            RecordId(j) = RecordId(i)})] :
                                    i \in SharingRecords}

\* two records written differently under one identifier, next to a third
C23_Witness ==
    /\ RecordsGiven
    /\ dpc = "done"
    /\ Len(dup_df.items) = 3
    /\ SharingRecords = {1, 3}
    /\ dup_df.items[1] # dup_df.items[3]
    /\ Len(duplicate_rows.items) = 2
    /\ outcome.error = "ValueError"
    /\ outcome.summary = <<[loan_id |-> <<"L", "1">>, count |-> 2]>>

\* records without a repeated identifier pass
C23_WitnessUnique ==
    /\ RecordsGiven
    /\ dpc = "done"
    /\ Len(dup_df.items) = 3
    /\ \E i \in DOMAIN dup_df.items : RecordId(i) = VNone
    /\ outcome.ok

(***************************************************************************)
(* hoa_report/run.py: filling the report from a vendor                     *)
(***************************************************************************)
HOA_VALUE_HEADER == "HOA Monthly Payment"

HOA_FLAG_HEADER == "HOA"

\* run._is_blank
run_is_blank(value) ==
    IF value.t = "None" THEN TRUE
    ELSE IF value.t = "str" THEN Strip(value.s) = <<>>
    ELSE IF value.t = "nan" THEN TRUE
    ELSE FALSE

RECURSIVE DigitsValue(_)
\* int(s) of a str of decimal digits
DigitsValue(s) ==
    IF s = <<>> THEN 0
    ELSE 10 * DigitsValue(SubSeq(s, 1, Len(s) - 1)) + (Ord(s[Len(s)]) - Ord("0"))

\* pd.to_numeric(value, errors="coerce"): a number, or NaN for what is not one
to_numeric(value) ==
    IF value.t \in {"int", "float"} THEN VFloat(value.n)
    ELSE IF value.t = "str"
    THEN LET s == Strip(value.s)
         IN  IF s # <<>> /\ \A i \in DOMAIN s : IsDigit(s[i])
             THEN VFloat(DigitsValue(s))
             ELSE VNaN
    ELSE VNaN

\* lines 286-290
_derive_hoa_flags_from_amounts(amount) ==
    IF amount.t = "nan" THEN VStr(<<>>)
    ELSE IF amount.n > 0 THEN VStr(<<"Y">>)
    ELSE IF amount.n = 0 THEN VStr(<<"N">>)
    ELSE VStr(<<>>)

Txt_dd_hoa == <<"d", "d", "_", "h", "o", "a">>

Txt_consolidated_analytics ==
    <<"c", "o", "n", "s", "o", "l", "i", "d", "a", "t", "e", "d", "_",
      "a", "n", "a", "l", "y", "t", "i", "c", "s">>

\* lines 293-294
_should_default_blank_hoa_to_zero(vendor) ==
    StrLower(Strip(vendor.type)) \in {Txt_dd_hoa, Txt_consolidated_analytics}

\* report_df[column] = value for a column the frame lacks
WithDefault(frame, column, value) ==
    IF column \in frame.columns THEN frame
    ELSE Frame(frame.columns \cup {column},
               [i \in DOMAIN frame.rows |->
                   [c \in frame.columns \cup {column} |->
                       IF c = column THEN value ELSE frame.rows[i][c]]])

\* lines 337-345: the copy of matched_df with normalized identifiers and
\* numeric amounts, blank amounts defaulted to 0.0 for some vendor types
WorkRows(vendor) ==
    [k \in DOMAIN vendor.matched_df.rows |->
        LET row == vendor.matched_df.rows[k]
            amount == to_numeric(row["hoa_monthly_dues_amount"])
        IN  [row EXCEPT !["loan_id"] = normalize_loan_id(row["loan_id"]),
                        !["hoa_monthly_dues_amount"] =
                            IF _should_default_blank_hoa_to_zero(vendor) /\ amount.t = "nan"
                            THEN VFloat(0)
                            ELSE amount]]

\* tape_ids.map(loan_indexed[column])[i]: the cell of the row indexed by the
\* identifier, NaN without such a row
Mapped(work, loan_id, column) ==
    IF \E k \in DOMAIN work : work[k]["loan_id"] = loan_id
    THEN work[CHOOSE k \in DOMAIN work : work[k]["loan_id"] = loan_id][column]
    ELSE VNaN

\* variant: a mapped amount is written whether or not the cell is blank
FillMaskAlways(cell, mapped_amount) == ~IsNA(mapped_amount)

\* blank_mask & mapped_amount.notna()
FillMask(cell, mapped_amount) == run_is_blank(cell) /\ ~IsNA(mapped_amount)

\* lines 347-367 on one report row
FillRow(row, loan_id, work, name) ==
    LET mapped_amount == Mapped(work, loan_id, "hoa_monthly_dues_amount")
        fill_payment == FillMask(row[HOA_VALUE_HEADER], mapped_amount)
        fill_hoa == FillMask(row[HOA_FLAG_HEADER], mapped_amount)
        contribution == fill_payment \/ fill_hoa
        source == Mapped(work, loan_id, "hoa_source")
        mapped_source == IF run_is_blank(source) THEN VStr(name) ELSE source
        mapped_file == Mapped(work, loan_id, "hoa_source_file")
    IN  [c \in DOMAIN row |->
            IF c = HOA_VALUE_HEADER /\ fill_payment THEN mapped_amount
            ELSE IF c = HOA_FLAG_HEADER /\ fill_hoa
            THEN _derive_hoa_flags_from_amounts(mapped_amount)
            ELSE IF c = "hoa_source_used" /\ run_is_blank(row[c]) /\ contribution
            THEN mapped_source
            ELSE IF c = "hoa_source_file_used" /\ run_is_blank(row[c]) /\ contribution
            THEN mapped_file
            ELSE row[c]]

\* lines 369-373: the amounts of the vendor by identifier, in row order
AmountMap(work) ==
    LET non_null == SelectSeq(work, LAMBDA row : row["hoa_monthly_dues_amount"].t # "nan")
    IN  [k \in DOMAIN non_null |->
            [loan_id |-> PyStr(non_null[k]["loan_id"]),
             amount |-> non_null[k]["hoa_monthly_dues_amount"].n]]

\* lines 318-373: the report frame after the call and the dictionary returned
_fill_report_from_vendor(report, ids, processed_vendor) ==
    IF processed_vendor.matched_df.rows = <<>>
    THEN [report_df |-> report, amount_map |-> <<>>]
    ELSE LET with_columns ==
                 WithDefault(
                     WithDefault(
                         WithDefault(WithDefault(report, HOA_VALUE_HEADER, VNone),
                                     HOA_FLAG_HEADER, VStr(<<>>)),
                         "hoa_source_used", VNone),
                     "hoa_source_file_used", VNone)
             work == WorkRows(processed_vendor)
         IN  [report_df |->
                  Frame(with_columns.columns,
                        [i \in DOMAIN with_columns.rows |->
                            FillRow(with_columns.rows[i], ids[i], work,
                                    processed_vendor.name)]),
              amount_map |-> AmountMap(work)]

(***************************************************************************)
(* The vendor loop of the report run, vendor after vendor                  *)
(***************************************************************************)
MaxReportRows == 2

MaxFillVendors == 2

Txt_clayton == <<"c", "l", "a", "y", "t", "o", "n">>

Txt_DD == <<" ", "D", "D", "_", "H", "O", "A">>

Txt_300 == <<"3", "0", "0">>

\* the tape's identifiers as written, row by row
ReportIds == <<Txt_L1, Txt_L2, Txt_L3>>

REPORT_COLUMNS == {"SEMT ID", HOA_FLAG_HEADER, HOA_VALUE_HEADER}

ReportRow(loan_id, flag, payment) ==
    [c \in REPORT_COLUMNS |->
        IF c = "SEMT ID" THEN VStr(loan_id)
        ELSE IF c = HOA_FLAG_HEADER THEN flag
        ELSE payment]

ReportFlags == {VStr(<<>>), VStr(<<"Y">>)}

ReportPayments == {VNone, VFloat(999), VStr(Txt_Space)}

ProcessedVendor(name, type, rows) ==
    [name |-> name, type |-> type, matched_df |-> VendorFrame(rows)]

\* the processed vendors a run can hold
VendorChoices ==
    {ProcessedVendor(Txt_clayton, Txt_clayton,
                     <<VendorRow(VStr(Txt_L1), VFloat(125), VNone),
                       VendorRow(VStr(Txt_L2), VFloat(0), VNone)>>),
     ProcessedVendor(Txt_A, Txt_clayton,
                     <<VendorRow(VStr(Txt_l1), VNaN, VStr(Txt_A)),
                       VendorRow(VStr(Txt_L2), VStr(Txt_300), VStr(Txt_A))>>),
     ProcessedVendor(Txt_B, Txt_DD,
                     <<VendorRow(VStr(Txt_L1), VNone, VStr(Txt_B)),
                       VendorRow(VStr(Txt_L3), VFloat(250), VNone)>>),
     ProcessedVendor(Txt_B, Txt_clayton, <<>>),
     ProcessedVendor(Txt_A2, Txt_clayton,
                     <<VendorRow(VStr(Txt_L2), VFloat(-5), VStr(Txt_A))>>),
     ProcessedVendor(Txt_A1, Txt_dd_hoa,
                     <<VendorRow(VStr(Txt_L1), VStr(Txt_Y), VNone),
                       VendorRow(VStr(Txt_L2), VFloat(80), VNone)>>)}

FillInputs ==
    \E n \in 0..MaxReportRows :
        /\ tape_ids = [i \in 1..n |-> normalize_loan_id(VStr(ReportIds[i]))]
        /\ \/ \E flags \in [1..n -> ReportFlags] : \E payments \in [1..n -> ReportPayments] :
                  report_df = Frame(REPORT_COLUMNS,
                                    [i \in 1..n |->
                                        ReportRow(ReportIds[i], flags[i], payments[i])])
           \/ report_df = Frame({"SEMT ID"},
                                [i \in 1..n |-> [c \in {"SEMT ID"} |-> VStr(ReportIds[i])]])
        /\ \E m \in 0..MaxFillVendors : ordered_vendors \in [1..m -> VendorChoices]

FillInit ==
    /\ MergeIdle
    /\ NormalizeIdle
    /\ QaIdle
    /\ DupIdle
    /\ SqlIdle
    /\ FieldIdle
    /\ FillInputs
    /\ applied = 0
    /\ amount_map = <<>>

\* run.py 537-542: the next vendor of the loop fills the report
FillReportFromVendor ==
    /\ applied < Len(ordered_vendors)
    /\ LET r == _fill_report_from_vendor(report_df, tape_ids, ordered_vendors[applied + 1])
       IN  /\ report_df' = r.report_df
           /\ amount_map' = r.amount_map
    /\ applied' = applied + 1
    /\ UNCHANGED <<beside_fill, tape_ids, ordered_vendors>>

FillNext == FillReportFromVendor

FillSpec == FillInit /\ [][FillNext]_vars

(***************************************************************************)
(* C24  A filled report cell is never overwritten                          *)
(***************************************************************************)
ReportCells == {"HOA Monthly Payment", "HOA"}

\* the cell of a report row is held and is not blank
NonBlankCell(frame, i, c) ==
    /\ c \in frame.columns
    /\ i \in DOMAIN frame.rows
    /\ ~BlankValue(frame.rows[i][c])

\* C24: when vendors are applied one after another in priority order, a
\* report cell ('HOA Monthly Payment' or 'HOA') that is non-blank before a
\* vendor is applied has the same value after it.
C24_NonBlankCellKept ==
    [][\A c \in ReportCells : \A i \in DOMAIN report_df.rows :
           NonBlankCell(report_df, i, c) =>
               /\ NonBlankCell(report_df', i, c)
               /\ report_df'.rows[i][c] = report_df.rows[i][c]]_vars

\* a second vendor with an amount for a row the first vendor filled, and for
\* a row whose cell the report held from the start
C24_Witness ==
    /\ applied = 2
    /\ Len(report_df.rows) = 2
    /\ ReportCells \subseteq report_df.columns
    /\ report_df.rows[1]["HOA Monthly Payment"] = VFloat(125)
    /\ report_df.rows[2]["HOA Monthly Payment"] = VFloat(999)
    /\ ordered_vendors[1].name = Txt_clayton
    /\ ordered_vendors[2].name = Txt_A1
    /\ report_df.rows[2]["HOA"] = VStr(<<"N">>)

(***************************************************************************)
(* hoa_report/sql/enrichment.py: one call of                               *)
(* _run_enrichment_sql_on_connection                                       *)
(***************************************************************************)
MaxResultSets == 3

\* a result set without columns (a row count, a message)
NonTabular == [tabular |-> FALSE, columns |-> <<>>, rows |-> <<>>]

Tabular(columns, rows) == [tabular |-> TRUE, columns |-> columns, rows |-> rows]

ResultSetChoices ==
    {NonTabular,
     Tabular(<<"loan_id", "Seller">>, <<<<"L1001", "A">>, <<"L1002", "B">>>>),
     Tabular(<<"loan_id">>, <<>>)}

\* the driver calls that can raise
Faults == {"none", "load", "commit", "execute", "fetchall", "nextset"}

SqlInit ==
    /\ MergeIdle
    /\ NormalizeIdle
    /\ QaIdle
    /\ DupIdle
    /\ FillIdle
    /\ FieldIdle
    /\ \E n \in 0..MaxResultSets : result_sets \in [1..n -> ResultSetChoices]
    /\ fault \in Faults
    /\ spc = "cursor"
    /\ result_index = 0
    /\ cursor_open = FALSE
    /\ loaded = FALSE
    /\ committed = FALSE
    /\ pending = ""
    /\ sql_outcome = <<>>

\* cursor.description is not None
HasDescription(sets, index) == index \in DOMAIN sets /\ sets[index].tabular

\* variant: nextset() moves to the last result set
nextset_last(sets, index) == IF index < Len(sets) THEN Len(sets) ELSE 0

\* cursor.nextset(): the index of the next result set, 0 when there is none
nextset(sets, index) == IF index < Len(sets) THEN index + 1 ELSE 0

\* line 53
OpenCursor ==
    /\ spc = "cursor"
    /\ cursor_open' = TRUE
    /\ spc' = "load"
    /\ UNCHANGED <<beside_sql, result_sets, fault, result_index, loaded, committed,
                   pending, sql_outcome>>

\* line 55
LoadIds ==
    /\ spc = "load"
    /\ IF fault = "load"
       THEN /\ pending' = "DriverError"
            /\ spc' = "finally"
            /\ UNCHANGED loaded
       ELSE /\ loaded' = TRUE
            /\ spc' = "commit"
            /\ UNCHANGED pending
    /\ UNCHANGED <<beside_sql, result_sets, fault, result_index, cursor_open, committed,
                   sql_outcome>>

\* line 56
Commit ==
    /\ spc = "commit"
    /\ IF fault = "commit"
       THEN /\ pending' = "DriverError"
            /\ spc' = "finally"
            /\ UNCHANGED committed
       ELSE /\ committed' = TRUE
            /\ spc' = "execute"
            /\ UNCHANGED pending
    /\ UNCHANGED <<beside_sql, result_sets, fault, result_index, cursor_open, loaded,
                   sql_outcome>>

\* line 57: the cursor stands on the first result set, if there is one
Execute ==
    /\ spc = "execute"
    /\ IF fault = "execute"
       THEN /\ pending' = "DriverError"
            /\ spc' = "finally"
            /\ UNCHANGED result_index
       ELSE /\ result_index' = 1
            /\ spc' = "loop"
            /\ UNCHANGED pending
    /\ UNCHANGED <<beside_sql, result_sets, fault, cursor_open, loaded, committed,
                   sql_outcome>>

\* lines 59-63: the current result set is tabular
FetchTabular ==
    /\ spc = "loop"
    /\ HasDescription(result_sets, result_index)
    /\ IF fault = "fetchall"
       THEN /\ pending' = "DriverError"
            /\ UNCHANGED sql_outcome
       ELSE /\ sql_outcome' = [columns |-> result_sets[result_index].columns,
                               rows |-> result_sets[result_index].rows]
            /\ UNCHANGED pending
    /\ spc' = "finally"
    /\ UNCHANGED <<beside_sql, result_sets, fault, result_index, cursor_open, loaded,
                   committed>>

\* lines 64-67: the current result set is not tabular
NextSet ==
    /\ spc = "loop"
    /\ ~HasDescription(result_sets, result_index)
    /\ IF fault = "nextset"
       THEN /\ pending' = "DriverError"
            /\ spc' = "finally"
            /\ UNCHANGED result_index
       ELSE IF nextset(result_sets, result_index) = 0
       THEN /\ pending' = "ValueError"
            /\ spc' = "finally"
            /\ UNCHANGED result_index
       ELSE /\ result_index' = nextset(result_sets, result_index)
            /\ UNCHANGED <<pending, spc>>
    /\ UNCHANGED <<beside_sql, result_sets, fault, cursor_open, loaded, committed,
                   sql_outcome>>

\* lines 68-70: finally, then the return or the exception in flight
CloseCursor ==
    /\ spc = "finally"
    /\ cursor_open' = FALSE
    /\ spc' = IF pending = "" THEN "returned" ELSE "raised"
    /\ UNCHANGED <<beside_sql, result_sets, fault, result_index, loaded, committed,
                   pending, sql_outcome>>

SqlNext ==
    \/ OpenCursor
    \/ LoadIds
    \/ Commit
    \/ Execute
    \/ FetchTabular
    \/ NextSet
    \/ CloseCursor

SqlSpec == SqlInit /\ [][SqlNext]_vars

\* the function runs on one thread from its first line to its return
SqlLiveSpec == SqlSpec /\ WF_vars(SqlNext)

(***************************************************************************)
(* C27  The result-set loop ends and closes the cursor                     *)
(***************************************************************************)
SqlEnded == spc \in {"returned", "raised"}

TabularSets == {k \in DOMAIN result_sets : result_sets[k].tabular}

FirstTabular == CHOOSE k \in TabularSets : \A j \in TabularSets : k <= j

\* the call ended as the result sets demand: the rows of the first tabular
\* result set are returned, or the error is raised when none is tabular
EndedAsDemanded ==
    IF TabularSets # {}
    THEN /\ spc = "returned"
         /\ sql_outcome = [columns |-> result_sets[FirstTabular].columns,
                           rows |-> result_sets[FirstTabular].rows]
    ELSE /\ spc = "raised"
         /\ pending = "ValueError"

\* C27: for every finite sequence of result sets the call, after loading
\* the tape identifiers and committing, ends: it returns the rows of the
\* first tabular result set, skipping the non-tabular ones before it, or
\* raises when none is tabular; and however it ends, whether by a return or
\* by an error of the driver, the cursor is closed.
C27_LoopEndsCursorClosed ==
    <>(/\ SqlEnded
       /\ ~cursor_open
       /\ fault = "none" => loaded /\ committed /\ EndedAsDemanded)

\* a tabular result set returned after two non-tabular ones
C27_Witness ==
    /\ spc = "returned"
    /\ ~cursor_open
    /\ Len(result_sets) = 3
    /\ FirstTabular = 3
    /\ Len(sql_outcome.rows) = 2

\* the driver fails while the rows are fetched and the cursor is closed
C27_WitnessError ==
    /\ spc = "raised"
    /\ pending = "DriverError"
    /\ fault = "fetchall"
    /\ ~cursor_open

C25_WitnessRaised ==
    /\ pc = "raised"
    /\ raised.error = "DuplicateVendorLoanId"
    /\ TapeWritten(loan_master_df) # loan_master_df

(***************************************************************************)
(* C30  Vendor rows for identifiers the tape lacks                         *)
(***************************************************************************)
\* the raw source without its rows whose normalized identifier is not in
\* the tape
WithoutExtraRows(source) ==
    Frame(source.columns,
          SelectSeq(source.rows,
                    LAMBDA r : /\ "loan_id" \in source.columns
                               /\ \E i \in DOMAIN base_rows :
                                      base_rows[i]["loan_id"] = normalize_loan_id(r["loan_id"])))

TrimmedSources == [k \in DOMAIN hoa_sources |-> WithoutExtraRows(hoa_sources[k])]

\* what the call on the same tape and priority list gives for other sources:
\* the source order, the merged rows and the missing_in_vendor lists
ResultFor(sources) ==
    LET prepared == PrepareAll(sources).value
        ordered == _resolve_priority_order(prepared, priority)
        work == JoinAll(base_rows, ordered)
        selected == Waterfall(work, base_rows)
        exceptions == VendorExceptions(base_rows, ordered)
    IN  [order |-> [k \in DOMAIN ordered |-> ordered[k].original_index],
         rows |->
             [i \in DOMAIN base_rows |->
                 LET used == Provenance(work[i],
                                 [c \in Range(HOA_VALUE_COLUMNS) |->
                                     [rank |-> selected[i][c].rank]],
                                 base_rows[i], ordered)
                 IN  [c \in DOMAIN merged_df[i] |->
                         IF c \in Range(HOA_VALUE_COLUMNS) THEN selected[i][c].value
                         ELSE IF c = "hoa_source_used" THEN used.source
                         ELSE IF c = "hoa_source_file_used" THEN used.file
                         ELSE IF c = "hoa_discrepancy_flag"
                         THEN VBool(DiscrepancyFlag(work[i], base_rows[i]))
                         ELSE base_rows[i][c]]],
         missing |->
             [e \in DOMAIN exceptions |-> exceptions[e].entry.missing_in_vendor]]

\* the result of the call itself, in the same form
ResultOfCall ==
    [order |-> [k \in DOMAIN ordered_sources |-> ordered_sources[k].original_index],
     rows |-> merged_df,
     missing |->
         [e \in DOMAIN vendor_exceptions |-> vendor_exceptions[e].entry.missing_in_vendor]]

\* some source holds a row for an identifier the tape lacks
HoldsExtraRows == \E k \in DOMAIN hoa_sources : Len(TrimmedSources[k].rows) < Len(hoa_sources[k].rows)

\* the name and file each source declares are the same without its extra rows
SameDeclarations ==
    LET trimmed == PrepareAll(TrimmedSources).value
    IN  \A k \in DOMAIN prepared_sources :
            /\ trimmed[k].source_name = prepared_sources[k].source_name
            /\ trimmed[k].source_file = prepared_sources[k].source_file

\* C30 as stated: for sources that prepare without error, removing the rows
\* whose normalized identifier is not in the tape leaves the source order,
\* every merged row and every missing_in_vendor list unchanged.
C30_ExtraRowsInert ==
    pc = "returned" => ResultFor(TrimmedSources) = ResultOfCall

\* C30 amended: for sources that prepare without error, removing the rows
\* whose normalized identifier is not in the tape leaves the source order,
\* every merged row and every missing_in_vendor list unchanged, provided the
\* removal leaves each source's first non-blank source name and source file
\* as they were.
C30_ExtraRowsInertBesideNames ==
    pc = "returned" /\ SameDeclarations => ResultFor(TrimmedSources) = ResultOfCall

\* a returned call with a source whose extra row comes before the row that
\* supplies the merged amount
C30_Witness ==
    /\ pc = "returned"
    /\ HoldsExtraRows
    /\ SameDeclarations
    /\ \E k \in DOMAIN hoa_sources :
           /\ Len(hoa_sources[k].rows) > 1
           /\ NormId(hoa_sources[k], 1) \notin {base_rows[i]["loan_id"] : i \in DOMAIN base_rows}
           /\ NormId(hoa_sources[k], 1) # VNone
           /\ \E e \in DOMAIN vendor_exceptions :
                  vendor_exceptions[e].entry.extra_in_vendor # <<>>
    /\ \E i \in DOMAIN merged_df : merged_df[i]["hoa_source_used"] # VNone

(***************************************************************************)
(* The value columns of one merge, taken in any order                      *)
(***************************************************************************)
beside_field ==
    <<normalize_vars, qa_vars, dup_vars, fill_vars, sql_vars>>

\* A one-row tape with or without an amount of its own against sources that
\* hold an amount, a note or both for the row
MaxFieldSources == 2

FieldTapes ==
    {Frame({"loan_id", "hoa_monthly_dues_amount"}, <<TapeRow(VStr(Txt_L1), amount)>>) :
        amount \in {VNaN, VFloat(50)}}

FieldSources ==
    {Frame(PROVENANCE_COLUMNS,
           <<ProvenanceRow(VStr(Txt_L1), VFloat(100), VNone, VStr(Txt_A), FileOf(Txt_A))>>),
     Frame(PROVENANCE_COLUMNS,
           <<ProvenanceRow(VStr(Txt_L1), VFloat(150), VStr(Txt_N), VStr(Txt_B), FileOf(Txt_B))>>),
     Frame(PROVENANCE_COLUMNS,
           <<ProvenanceRow(VStr(Txt_L1), VNaN, VStr(Txt_N), VStr(Txt_A1), VNone)>>)}

FieldFamily ==
    \E tape \in FieldTapes :
    \E n \in 0..MaxFieldSources : \E sources \in [1..n -> FieldSources] :
        MergeInput(tape, sources, <<Txt_B, Txt_A>>)

FieldInit ==
    /\ NormalizeIdle
    /\ QaIdle
    /\ DupIdle
    /\ FillIdle
    /\ SqlIdle
    /\ FieldIdle
    /\ FieldFamily
    /\ pc = "tape"
    /\ merged_df = <<>>
    /\ base_rows = <<>>
    /\ prepared_sources = <<>>
    /\ ordered_sources = <<>>
    /\ work_df = <<>>
    /\ selected_rank = <<>>
    /\ vendor_exceptions = <<>>
    /\ raised = NoError

\* variant: one selected_values series serves every column, the one of
\* hoa_notes
SelectedSoFarShared(values, column, i) ==
    IF i \in DOMAIN values["hoa_notes"] THEN values["hoa_notes"][i]
    ELSE [value |-> VNone, rank |-> RANK_NONE]

\* lines 267-268: the column's own selected_values and selected_rank, None
\* and -1 before its first source is applied
SelectedSoFar(values, column, i) ==
    IF i \in DOMAIN values[column] THEN values[column][i]
    ELSE [value |-> VNone, rank |-> RANK_NONE]

\* lines 269-274 for one column and the next rank of its loop
FillFromSource(column) ==
    /\ pc = "fill"
    /\ field_next[column] < Len(ordered_sources)
    /\ LET rank == field_next[column]
       IN  /\ field_values' =
                [field_values EXCEPT ![column] =
                    [i \in DOMAIN work_df |->
                        LET source_value == work_df[i].src[rank + 1][column]
                            selected == SelectedSoFar(field_values, column, i)
                        IN  IF _is_blank(selected.value) /\ ~_is_blank(source_value)
                            THEN [value |-> source_value, rank |-> rank]
                            ELSE selected]]
           /\ field_next' = [field_next EXCEPT ![column] = rank + 1]
    /\ UNCHANGED <<beside_field, merge_vars>>

\* lines 276-282 for one column whose loop over the ranks has ended: the
\* fallback to the tape's own value, then the writes of the column
FallBackToTape(column) ==
    /\ pc = "fill"
    /\ field_next[column] = Len(ordered_sources)
    /\ LET selected ==
               [i \in DOMAIN merged_df |->
                   LET filled == SelectedSoFar(field_values, column, i)
                   IN  IF _is_blank(filled.value) /\ ~_is_blank(base_rows[i][column])
                       THEN [value |-> base_rows[i][column], rank |-> RANK_BASE]
                       ELSE filled]
       IN  /\ field_values' = [field_values EXCEPT ![column] = selected]
           /\ merged_df' =
                [i \in DOMAIN merged_df |->
                    [merged_df[i] EXCEPT ![column] = selected[i].value]]
           /\ selected_rank' =
                [i \in DOMAIN merged_df |->
                    LET written == IF i \in DOMAIN selected_rank
                                   THEN DOMAIN selected_rank[i] ELSE {}
                    IN  [c \in written \cup {column} |->
                            IF c = column THEN selected[i].rank
                            ELSE selected_rank[i][c]]]
    /\ field_next' = [field_next EXCEPT ![column] = Len(ordered_sources) + 1]
    /\ UNCHANGED <<beside_field, args, base_rows, prepared_sources, ordered_sources,
                   work_df, vendor_exceptions, raised, pc>>

\* line 265: the loop over the value columns has ended
FieldsFilled ==
    /\ pc = "fill"
    /\ \A c \in Range(HOA_VALUE_COLUMNS) : field_next[c] = Len(ordered_sources) + 1
    /\ pc' = "provenance"
    /\ UNCHANGED <<beside_field, field_vars, args, merged_df, base_rows, prepared_sources,
                   ordered_sources, work_df, selected_rank, vendor_exceptions, raised>>

FieldNext ==
    \/ CheckTape
    \/ PrepareSources
    \/ ResolvePriority
    \/ JoinSources
    \/ \E column \in Range(HOA_VALUE_COLUMNS) : FillFromSource(column)
    \/ \E column \in Range(HOA_VALUE_COLUMNS) : FallBackToTape(column)
    \/ FieldsFilled
    \/ ResolveProvenance
    \/ FlagDiscrepancies
    \/ ReportExceptions

FieldSpec == FieldInit /\ [][FieldNext]_vars

(***************************************************************************)
(* C26  Field-order independence                                           *)
(***************************************************************************)
\* some column has applied a source while another has not started, and a
\* third has already fallen back to the tape
FieldsInterleaved ==
    \E c, d, e \in Range(HOA_VALUE_COLUMNS) :
        /\ field_next[c] = 0
        /\ field_next[d] \in 1..Len(ordered_sources)
        /\ field_next[e] = Len(ordered_sources) + 1

\* C26: whatever the order or interleaving in which the value columns are
\* processed, each column applying the sources in priority-rank order, the
\* selected ranks once the columns are filled, and the merged values,
\* provenance and discrepancy flags of the returned rows, are those of the
\* column-by-column order of the code.
C26_FieldOrderIndependent ==
    /\ Filled =>
          LET selected == Waterfall(work_df, base_rows)
          IN  /\ selected_rank =
                    [i \in DOMAIN base_rows |->
                        [c \in Range(HOA_VALUE_COLUMNS) |-> selected[i][c].rank]]
              /\ \A i \in DOMAIN merged_df : \A c \in Range(HOA_VALUE_COLUMNS) :
                    merged_df[i][c] = selected[i][c].value
    /\ pc = "returned" => merged_df = ResultFor(hoa_sources).rows

\* a returned call on two sources whose columns were filled in some order:
\* the amount comes from the first rank, the notes are set, the row is
\* flagged and attributed to the first source
C26_Witness ==
    /\ pc = "returned"
    /\ Len(ordered_sources) = 2
    /\ merged_df[1]["hoa_monthly_dues_amount"] = VFloat(150)
    /\ merged_df[1]["hoa_notes"] = VStr(Txt_N)
    /\ selected_rank[1]["hoa_monthly_dues_amount"] = 0
    /\ merged_df[1]["hoa_discrepancy_flag"] = VBool(TRUE)
    /\ merged_df[1]["hoa_source_used"] = VStr(Txt_B)

\* the columns in the middle of an interleaving: the notes through both
\* sources and written, the amount through one source, others not started
C26_WitnessInterleaved ==
    /\ pc = "fill"
    /\ Len(ordered_sources) = 2
    /\ field_next["hoa_notes"] = 3
    /\ field_next["hoa_monthly_dues_amount"] = 1
    /\ FieldsInterleaved
    /\ merged_df[1]["hoa_notes"] = VStr(Txt_N)
    /\ SelectedSoFar(field_values, "hoa_monthly_dues_amount", 1).rank = 0

====
